---- MODULE Spec2Model ----
(***************************************************************************)
(* A model of the hydro compiler: Tokenizer (src/src/tokenization.hpp),    *)
(* Parser (src/src/parser.hpp), Generator (src/src/generation.hpp) and the *)
(* x86-64 program the generator emits.                                     *)
(*                                                                         *)
(* Characters are one-character strings, a source text is a sequence of    *)
(* characters, and an std::optional without a value is the empty string    *)
(* (for a char) or the empty sequence (for a token's value).               *)
(***************************************************************************)
EXTENDS Integers, Sequences, FiniteSets, TLC

\* The tokenizer, the generator, and the processor running the linked program.
VARIABLES
  m_src,               \* Tokenizer::m_src, the source text
  m_index,             \* Tokenizer::m_index, 0-based
  tokens,              \* the local vector<Token> of Tokenizer::tokenize
  lexStatus,           \* where tokenize is: running, done, or how it ended
  p_index,             \* Parser::m_index, 0-based
  prog,                \* the local NodeProg of Parser::parse_prog: prog.stmts
  nodes,               \* the structs alloc has returned to the parser, in that order
  prog_stmts,          \* prog.stmts as the vector of NodeStmt* it is
  parseStatus,         \* where parse_prog is: not_started, loop, ok, or the fatal error
  m_prog,              \* Generator::m_prog, the statements of the program
  m_output,            \* Generator::m_output, a sequence of lines
  m_data_section,      \* Generator::m_data_section, likewise
  m_stack_size,        \* Generator::m_stack_size
  m_vars,              \* Generator::m_vars
  m_scopes,            \* Generator::m_scopes
  m_label_count,       \* Generator::m_label_count
  string_label_count,  \* the static local of Generator::make_string_label
  genStatus,           \* "ok", or the fatal error that ended the process
  gen_pc,              \* where gen_prog is: begin, loop, returned, exited
  stmt_index,          \* the statement the loop of gen_prog is at, 1-based
  generators,          \* how many Generator objects the process has built
  out_asm,             \* the file out.asm
  regs,                \* the registers the emitted code uses
  stack,               \* the 8-byte slots pushed since _start, top last
  ip,                  \* the line of out.asm to execute next, 1-based
  zf,                  \* the zero flag
  runStatus,           \* not_started, running, exited, or the fault
  exit_status,         \* the status the process ended with
  m_size,              \* ArenaAllocator::m_size
  m_offset,            \* ArenaAllocator::m_offset, as an offset from m_buffer
  regions              \* what alloc has returned so far: offset and size of each

lexVars == <<m_src, m_index, tokens, lexStatus>>
genVars == <<m_prog, m_output, m_data_section, m_stack_size, m_vars, m_scopes,
             m_label_count, string_label_count, genStatus, gen_pc, stmt_index,
             generators, out_asm>>
runVars == <<regs, stack, ip, zf, runStatus, exit_status>>
parseVars == <<p_index, prog, parseStatus, nodes, prog_stmts>>
arenaVars == <<m_size, m_offset, regions>>
vars == <<lexVars, parseVars, genVars, runVars, arenaVars>>

(***************************************************************************)
(* Generic helpers                                                         *)
(***************************************************************************)
RECURSIVE Flatten(_)
Flatten(ss) == IF ss = <<>> THEN <<>> ELSE Head(ss) \o Flatten(Tail(ss))

RECURSIVE Join(_)
Join(cs) == IF cs = <<>> THEN "" ELSE Head(cs) \o Join(Tail(cs))

SeqsUpTo(S, n) == UNION {[1..k -> S] : k \in 0..n}

(***************************************************************************)
(* Tokenizer                                                               *)
(***************************************************************************)
NoChar == ""
NoValue == <<>>

Letters == {"a","b","c","d","e","f","g","h","i","j","k","l","m","n","o","p",
            "q","r","s","t","u","v","w","x","y","z","A","B","C","D","E","F",
            "G","H","I","J","K","L","M","N","O","P","Q","R","S","T","U","V",
            "W","X","Y","Z"}
Digits == {"0","1","2","3","4","5","6","7","8","9"}
Spaces == {" ", "\n", "\t", "\r", "\f"}

isalpha(c) == c \in Letters
isdigit(c) == c \in Digits
isalnum(c) == c \in Letters \cup Digits
isspace(c) == c \in Spaces

\* Tokenizer::peek at index i: the character at i + offset, or no value.
PeekAt(i, offset) ==
  IF i + offset >= Len(m_src) THEN NoChar ELSE m_src[i + offset + 1]

Tok(type) == [type |-> type, value |-> NoValue]
TokV(type, v) == [type |-> type, value |-> <<v>>]

\* What one iteration of tokenize's loop leaves behind.
Lexed(i, toks, st) == [idx |-> i, toks |-> toks, st |-> st]

\* The inner loop of the line comment: consume up to the end of the line.
RECURSIVE SkipLine(_)
SkipLine(i) ==
  IF PeekAt(i, 0) # NoChar /\ PeekAt(i, 0) # "\n" THEN SkipLine(i + 1) ELSE i

\* The inner loop of the block comment. peek(1).value() is evaluated when the
\* current character is '*': without a next character it throws
\* std::bad_optional_access, which nothing catches. -1 stands for the throw.
RECURSIVE SkipBlock(_)
SkipBlock(i) ==
  IF PeekAt(i, 0) = NoChar THEN i
  ELSE IF PeekAt(i, 0) = "*" /\ PeekAt(i, 1) = NoChar THEN -1
  ELSE IF PeekAt(i, 0) = "*" /\ PeekAt(i, 1) = "/" THEN i
  ELSE SkipBlock(i + 1)

LexLineComment(i, toks) == Lexed(SkipLine(i + 2), toks, "running")

\* A block comment whose closing delimiter is consumed only in part.
LexBlockCommentHalfClosed(i, toks) ==
  LET j == SkipBlock(i + 2) IN
  IF j = -1 THEN Lexed(i, toks, "bad_optional_access")
  ELSE IF PeekAt(j, 0) # NoChar THEN Lexed(j + 1, toks, "running")
  ELSE Lexed(j, toks, "running")

LexBlockComment(i, toks) ==
  LET j == SkipBlock(i + 2) IN
  IF j = -1 THEN Lexed(i, toks, "bad_optional_access")
  ELSE IF PeekAt(j, 0) # NoChar THEN Lexed(j + 2, toks, "running")
  ELSE Lexed(j, toks, "running")

\* The lookahead of a two-character operator whose first character is at i:
\* peek(1).value() throws when i is the last character.
LexTwoChar(i, toks, type) ==
  IF PeekAt(i, 1) = NoChar THEN Lexed(i, toks, "bad_optional_access")
  ELSE Lexed(i + 2, Append(toks, Tok(type)), "running")

\* The while loop of the string literal branch, from index i with the payload
\* decoded so far. Ends at the closing quote (consumed), at the end of the
\* input, or on an unknown escape.
RECURSIVE ScanString(_, _, _)
ScanString(i, str_val, is_escaped) ==
  LET c == PeekAt(i, 0) IN
  IF c = NoChar THEN [idx |-> i, val |-> str_val, err |-> FALSE]
  ELSE IF is_escaped THEN
    IF c = "n" THEN ScanString(i + 1, str_val \o "\n", FALSE)
    ELSE IF c = "t" THEN ScanString(i + 1, str_val \o "\t", FALSE)
    ELSE IF c = "\"" THEN ScanString(i + 1, str_val \o "\"", FALSE)
    ELSE IF c = "\\" THEN ScanString(i + 1, str_val \o "\\", FALSE)
    ELSE [idx |-> i, val |-> str_val, err |-> TRUE]
  ELSE IF c = "\\" THEN ScanString(i + 1, str_val, TRUE)
  ELSE IF c = "\"" THEN [idx |-> i + 1, val |-> str_val, err |-> FALSE]
  ELSE ScanString(i + 1, str_val \o c, FALSE)

\* The end of a run of characters of class S that starts at i.
RECURSIVE ScanRun(_, _)
ScanRun(i, S) ==
  IF PeekAt(i, 0) # NoChar /\ PeekAt(i, 0) \in S THEN ScanRun(i + 1, S) ELSE i

Buf(i, j) == Join(SubSeq(m_src, i + 1, j))

\* The keyword comparisons of the identifier branch, in the order of the code.
\* "else if" is compared too, but buf holds alphanumerics only.
WordToken(buf) ==
  IF buf = "true" THEN Tok("true_")
  ELSE IF buf = "false" THEN Tok("false_")
  ELSE IF buf = "exit" THEN Tok("exit")
  ELSE IF buf = "let" THEN Tok("let")
  ELSE IF buf = "if" THEN Tok("if_")
  ELSE IF buf = "else" THEN Tok("else_")
  ELSE IF buf = "else if" THEN Tok("else_if")
  ELSE IF buf = "while" THEN Tok("while_")
  ELSE IF buf = "for" THEN Tok("for_")
  ELSE IF buf = "function" THEN Tok("function")
  ELSE IF buf = "return" THEN Tok("return_")
  ELSE TokV("ident", buf)

LexWord(i, toks) ==
  LET j == ScanRun(i + 1, Letters \cup Digits) IN
  Lexed(j, Append(toks, WordToken(Buf(i, j))), "running")

LexNumber(i, toks) ==
  LET j == ScanRun(i + 1, Digits) IN
  Lexed(j, Append(toks, TokV("int_lit", Buf(i, j))), "running")

\* The single-character tokens of the if/else-if chain.
PunctType(c) ==
  CASE c = "(" -> "open_paren"
    [] c = ")" -> "close_paren"
    [] c = ";" -> "semi"
    [] c = "=" -> "eq"
    [] c = "+" -> "plus"
    [] c = "*" -> "star"
    [] c = "-" -> "minus"
    [] c = "/" -> "fslash"
    [] c = "{" -> "open_curly"
    [] c = "}" -> "close_curly"
    [] c = "," -> "comma"
    [] OTHER -> "none"

\* The if/else-if chain that ends the loop body (from std::isalpha on).
LexChain(i, toks) ==
  LET c == PeekAt(i, 0) IN
  IF isalpha(c) THEN LexWord(i, toks)
  ELSE IF isdigit(c) THEN LexNumber(i, toks)
  ELSE IF PunctType(c) # "none"
    THEN Lexed(i + 1, Append(toks, Tok(PunctType(c))), "running")
  ELSE IF isspace(c) THEN Lexed(i + 1, toks, "running")
  ELSE Lexed(i, toks, "syntax_error")

\* The `||` check and what follows it in the loop body.
LexOrOrAndChain(i, toks) ==
  IF PeekAt(i, 0) = "|" THEN
    IF PeekAt(i, 1) = NoChar THEN Lexed(i, toks, "bad_optional_access")
    ELSE IF PeekAt(i, 1) = "|" THEN Lexed(i + 2, Append(toks, Tok("or_or")), "running")
    ELSE LexChain(i, toks)
  ELSE LexChain(i, toks)

\* The string literal branch. After the loop the code requires the NEXT
\* character to be a quote, pushes the token and, having no `continue`, goes on
\* with the rest of the loop body at the new index.
LexString(i, toks) ==
  LET s == ScanString(i + 1, "", FALSE) IN
  IF s.err THEN Lexed(s.idx, toks, "unknown_escape")
  ELSE IF PeekAt(s.idx, 0) = NoChar \/ PeekAt(s.idx, 0) # "\""
    THEN Lexed(s.idx, toks, "unclosed_string")
  ELSE LexOrOrAndChain(s.idx, Append(toks, TokV("string_lit", s.val)))

\* One iteration of the loop of tokenize, from index i.
LoopBody(i, toks) ==
  LET c == PeekAt(i, 0) IN
  IF c = "/" /\ PeekAt(i, 1) = "/" THEN LexLineComment(i, toks)
  ELSE IF c = "/" /\ PeekAt(i, 1) = "*" THEN LexBlockComment(i, toks)
  ELSE IF c = "=" /\ (PeekAt(i, 1) = NoChar \/ PeekAt(i, 1) = "=")
    THEN LexTwoChar(i, toks, "eq_eq")
  ELSE IF c = "&" /\ (PeekAt(i, 1) = NoChar \/ PeekAt(i, 1) = "&")
    THEN LexTwoChar(i, toks, "and_and")
  ELSE IF c = "\"" THEN LexString(i, toks)
  ELSE LexOrOrAndChain(i, toks)

Running == lexStatus = "running" /\ PeekAt(m_index, 0) # NoChar

TakeStep(r) ==
  /\ m_index' = r.idx
  /\ tokens' = r.toks
  /\ lexStatus' = r.st
  /\ UNCHANGED <<m_src, parseVars, genVars, runVars, arenaVars>>

IterComment ==
  /\ Running
  /\ PeekAt(m_index, 0) = "/" /\ PeekAt(m_index, 1) \in {"/", "*"}
  /\ TakeStep(LoopBody(m_index, tokens))

IterTwoChar ==
  /\ Running
  /\ \/ PeekAt(m_index, 0) \in {"=", "&"} /\ PeekAt(m_index, 1) \in {NoChar, PeekAt(m_index, 0)}
     \/ PeekAt(m_index, 0) = "|" /\ PeekAt(m_index, 1) \in {NoChar, "|"}
  /\ TakeStep(LoopBody(m_index, tokens))

IterString ==
  /\ Running
  /\ PeekAt(m_index, 0) = "\""
  /\ TakeStep(LoopBody(m_index, tokens))

IterWordOrNumber ==
  /\ Running
  /\ isalnum(PeekAt(m_index, 0))
  /\ TakeStep(LoopBody(m_index, tokens))

IterOther ==
  /\ Running
  /\ ~ (PeekAt(m_index, 0) = "/" /\ PeekAt(m_index, 1) \in {"/", "*"})
  /\ ~ (PeekAt(m_index, 0) \in {"=", "&"} /\ PeekAt(m_index, 1) \in {NoChar, PeekAt(m_index, 0)})
  /\ ~ (PeekAt(m_index, 0) = "|" /\ PeekAt(m_index, 1) \in {NoChar, "|"})
  /\ PeekAt(m_index, 0) # "\""
  /\ ~ isalnum(PeekAt(m_index, 0))
  /\ TakeStep(LoopBody(m_index, tokens))

\* The loop ends: m_index = 0; return tokens.
TokenizeReturn ==
  /\ lexStatus = "running"
  /\ PeekAt(m_index, 0) = NoChar
  /\ m_index' = 0
  /\ lexStatus' = "done"
  /\ UNCHANGED <<m_src, tokens, parseVars, genVars, runVars, arenaVars>>

(***************************************************************************)
(* Abstract syntax trees                                                   *)
(*                                                                         *)
(* A node is a record whose kind names the alternative the node's variant  *)
(* holds; NodeExpr, NodeTerm, NodeBinExpr and NodeStmt, which hold nothing *)
(* but the variant, are not nodes of their own here. An else-if chain is   *)
(* the sequence of its links.                                              *)
(***************************************************************************)
IntLit(lexeme) == [kind |-> "int_lit", value |-> lexeme]
BoolLit(b) == [kind |-> "bool_lit", bvalue |-> b]
Ident(name) == [kind |-> "ident", name |-> name]
Paren(e) == [kind |-> "paren", expr |-> e]
Bin(op, lhs, rhs) == [kind |-> op, lhs |-> lhs, rhs |-> rhs]
FuncCall(name, args) == [kind |-> "func_call", name |-> name, args |-> args]

StmtExit(e) == [kind |-> "exit", expr |-> e]
StmtLet(name, e) == [kind |-> "let", name |-> name, expr |-> e]
Scope(stmts) == [kind |-> "scope", stmts |-> stmts]
StmtIf(e, sc) == [kind |-> "if", expr |-> e, scope |-> sc]
StmtElse(sc) == [kind |-> "else", scope |-> sc]
ElseIfLink(e, sc) == [expr |-> e, scope |-> sc]
StmtElseIf(links) == [kind |-> "else_if", links |-> links]
StmtWhile(e, sc) == [kind |-> "while", expr |-> e, scope |-> sc]
StmtFor(i, c, s, sc) ==
  [kind |-> "for", init |-> i, condition |-> c, iteration |-> s, scope |-> sc]
FuncDef(name, params, body) ==
  [kind |-> "func_def", name |-> name, params |-> params, body |-> body]
StmtReturn(e) == [kind |-> "return", expr |-> e]
StmtPrint(e) == [kind |-> "print", expr |-> e]
StmtStringLit(chars) == [kind |-> "string_lit", chars |-> chars]

(***************************************************************************)
(* Generator                                                               *)
(*                                                                         *)
(* The generator's fields travel through the lowering functions as one     *)
(* record g; string_label_count, a static local of make_string_label,      *)
(* travels with them. status is "ok" until a fatal error ends the process; *)
(* from then on nothing changes. size_t values are kept as integers: a     *)
(* negative n stands for the wrapped value 2^64 + n.                       *)
(*                                                                         *)
(* A line of assembly is a record: the mnemonic, its text operands and its *)
(* numeric operand (the only place where two lines of one shape differ in  *)
(* a number).                                                              *)
(***************************************************************************)
MaxLiteral == 3

Ins(op, a, b, n) == [op |-> op, a |-> a, b |-> b, n |-> n]
LabelDef(name) == Ins("label:", name, "", 0)

\* The number an assembler reads from a decimal literal: the n whose
\* decimal digits, zeros in front, are the lexeme.
RECURSIVE Zeros(_)
Zeros(k) == IF k = 0 THEN "" ELSE "0" \o Zeros(k - 1)

LitValue(lexeme) ==
  CHOOSE n \in 0..(10 ^ Len(lexeme) - 1) :
    Zeros(Len(lexeme) - Len(ToString(n))) \o ToString(n) = lexeme

Ok(g) == g.status = "ok"
Fatal(g, why) == IF Ok(g) THEN [g EXCEPT !.status = why] ELSE g

\* m_output << line
Emit(g, line) == IF Ok(g) THEN [g EXCEPT !.m_output = Append(@, line)] ELSE g

push(g, reg, n) ==
  IF Ok(g)
  THEN [g EXCEPT !.m_output = Append(@, Ins("push", reg, "", n)),
                 !.m_stack_size = @ + 1]
  ELSE g

pop(g, reg) ==
  IF Ok(g)
  THEN [g EXCEPT !.m_output = Append(@, Ins("pop", reg, "", 0)),
                 !.m_stack_size = @ - 1]
  ELSE g

begin_scope(g) ==
  IF Ok(g) THEN [g EXCEPT !.m_scopes = Append(@, Len(g.m_vars))] ELSE g

\* end_scope without the pop_back of m_vars.
end_scope_keeping_vars(g) ==
  IF Ok(g)
  THEN LET pop_count == Len(g.m_vars) - g.m_scopes[Len(g.m_scopes)] IN
       [g EXCEPT !.m_output = Append(@, Ins("add", "rsp", "", pop_count * 8)),
                 !.m_stack_size = @ - pop_count,
                 !.m_scopes = SubSeq(@, 1, Len(@) - 1)]
  ELSE g

end_scope(g) ==
  IF Ok(g)
  THEN LET pop_count == Len(g.m_vars) - g.m_scopes[Len(g.m_scopes)] IN
       [g EXCEPT !.m_output = Append(@, Ins("add", "rsp", "", pop_count * 8)),
                 !.m_stack_size = @ - pop_count,
                 !.m_vars = SubSeq(@, 1, Len(@) - pop_count),
                 !.m_scopes = SubSeq(@, 1, Len(@) - 1)]
  ELSE g

\* create_label: the label it returns, and the generator after the call.
LabelName(n) == "label" \o ToString(n)
NextLabel(g) == LabelName(g.m_label_count)
create_label(g) == IF Ok(g) THEN [g EXCEPT !.m_label_count = @ + 1] ELSE g

\* make_string_label, likewise.
NextStringLabel(g) == "str_lit_" \o ToString(g.string_label_count)
make_string_label(g) ==
  IF Ok(g) THEN [g EXCEPT !.string_label_count = @ + 1] ELSE g

\* std::find_if over m_vars: the index of the first variable of that name, 0
\* for cend().
FindVar(g, name) ==
  IF \E k \in 1..Len(g.m_vars) : g.m_vars[k].name = name
  THEN CHOOSE k \in 1..Len(g.m_vars) :
         /\ g.m_vars[k].name = name
         /\ \A j \in 1..(k - 1) : g.m_vars[j].name # name
  ELSE 0

gen_func_prologue(g) ==
  Emit(Emit(g, Ins("push", "rbp", "", 0)), Ins("mov", "rbp", "rsp", 0))

gen_func_epilogue(g) ==
  Emit(Emit(Emit(g, Ins("mov", "rsp", "rbp", 0)), Ins("pop", "rbp", "", 0)),
       Ins("ret", "", "", 0))

\* for (int i = params.size() - 1; i >= 0; --i), i 0-based
RECURSIVE gen_param_passing(_, _, _)
gen_param_passing(g, params, i) ==
  IF i < 0 THEN g
  ELSE gen_param_passing(Emit(g, Ins("push", "[rbp + ]", "", (i + 2) * 8)),
                         params, i - 1)

RECURSIVE escape_string(_)
escape_string(str) ==
  IF str = <<>> THEN <<>>
  ELSE (CASE Head(str) = "\n" -> <<"\\", "n">>
          [] Head(str) = "\t" -> <<"\\", "t">>
          [] Head(str) = "\"" -> <<"\\", "\"">>
          [] Head(str) = "\\" -> <<"\\", "\\">>
          [] OTHER -> <<Head(str)>>) \o escape_string(Tail(str))

RECURSIVE gen_expr(_, _)
RECURSIVE gen_stmt(_, _)
RECURSIVE gen_func_args(_, _, _)
RECURSIVE gen_stmts(_, _, _)
RECURSIVE gen_else_if(_, _, _, _)

gen_term(g, term) ==
  CASE term.kind = "int_lit" ->
         push(Emit(g, Ins("mov", "rax", "", LitValue(term.value))), "rax", 0)
    [] term.kind = "bool_lit" ->
         push(Emit(g, Ins("mov", "rax", "", IF term.bvalue THEN 1 ELSE 0)), "rax", 0)
    [] term.kind = "ident" ->
         LET it == FindVar(g, term.name) IN
         IF it = 0 THEN Fatal(g, "undeclared_identifier")
         ELSE push(g, "QWORD [rsp + ]",
                   (g.m_stack_size - g.m_vars[it].stack_loc - 1) * 8)
    [] term.kind = "paren" -> gen_expr(g, term.expr)

\* The four arithmetic operators and ==: rhs, lhs, pop rax, pop rbx, the
\* operation, push rax.
gen_bin_arith(g, e, ops) ==
  LET g1 == gen_expr(g, e.rhs)
      g2 == gen_expr(g1, e.lhs)
      g3 == pop(pop(g2, "rax"), "rbx")
      g4 == IF Ok(g3) THEN [g3 EXCEPT !.m_output = @ \o ops] ELSE g3
  IN push(g4, "rax", 0)

\* gen_bin_logic without the jump after the left operand.
gen_bin_logic_eager(g, e, jump, through) ==
  LET labelShort == NextLabel(g)
      ga == create_label(g)
      labelEnd == NextLabel(ga)
      gb == create_label(ga)
      g1 == pop(gen_expr(gb, e.lhs), "rax")
      g2 == Emit(g1, Ins("cmp", "rax", "", 0))
      g3 == pop(gen_expr(g2, e.rhs), "rax")
      g4 == Emit(Emit(g3, Ins("cmp", "rax", "", 0)), Ins(jump, labelShort, "", 0))
      g5 == Emit(Emit(g4, Ins("mov", "rax", "", through)), Ins("jmp", labelEnd, "", 0))
      g6 == Emit(Emit(g5, LabelDef(labelShort)), Ins("mov", "rax", "", 1 - through))
  IN push(Emit(g6, LabelDef(labelEnd)), "rax", 0)

\* && (jump je, falling through to 1) and || (jump jne, falling through to 0)
gen_bin_logic(g, e, jump, through) ==
  LET labelShort == NextLabel(g)
      ga == create_label(g)
      labelEnd == NextLabel(ga)
      gb == create_label(ga)
      g1 == pop(gen_expr(gb, e.lhs), "rax")
      g2 == Emit(Emit(g1, Ins("cmp", "rax", "", 0)), Ins(jump, labelShort, "", 0))
      g3 == pop(gen_expr(g2, e.rhs), "rax")
      g4 == Emit(Emit(g3, Ins("cmp", "rax", "", 0)), Ins(jump, labelShort, "", 0))
      g5 == Emit(Emit(g4, Ins("mov", "rax", "", through)), Ins("jmp", labelEnd, "", 0))
      g6 == Emit(Emit(g5, LabelDef(labelShort)), Ins("mov", "rax", "", 1 - through))
  IN push(Emit(g6, LabelDef(labelEnd)), "rax", 0)

gen_bin_expr(g, e) ==
  CASE e.kind = "sub" -> gen_bin_arith(g, e, <<Ins("sub", "rax", "rbx", 0)>>)
    [] e.kind = "add" -> gen_bin_arith(g, e, <<Ins("add", "rax", "rbx", 0)>>)
    [] e.kind = "multi" -> gen_bin_arith(g, e, <<Ins("mul", "rbx", "", 0)>>)
    [] e.kind = "div" -> gen_bin_arith(g, e, <<Ins("div", "rbx", "", 0)>>)
    [] e.kind = "eq" ->
         gen_bin_arith(g, e, <<Ins("cmp", "rax", "rbx", 0), Ins("sete", "al", "", 0),
                                Ins("movzx", "rax", "al", 0)>>)
    [] e.kind = "and" -> gen_bin_logic(g, e, "je", 1)
    [] e.kind = "or" -> gen_bin_logic(g, e, "jne", 0)

\* The arguments from the last to the first (rbegin to rend); k is 1-based.
gen_func_args(g, args, k) ==
  IF k = 0 THEN g ELSE gen_func_args(gen_expr(g, args[k]), args, k - 1)

gen_func_call(g, call) ==
  LET g1 == gen_func_args(g, call.args, Len(call.args))
      g2 == Emit(g1, Ins("call", call.name, "", 0))
  IN IF call.args # <<>>
     THEN Emit(g2, Ins("add", "rsp", "", Len(call.args) * 8))
     ELSE g2

BinKinds == {"add", "sub", "multi", "div", "eq", "and", "or"}

gen_expr(g, expr) ==
  IF ~ Ok(g) THEN g
  ELSE IF expr.kind \in BinKinds THEN gen_bin_expr(g, expr)
  ELSE IF expr.kind = "func_call" THEN gen_func_call(g, expr)
  ELSE gen_term(g, expr)

\* for (const NodeStmt* stmt : stmts) gen_stmt(stmt), from the k-th on
gen_stmts(g, stmts, k) ==
  IF k > Len(stmts) THEN g ELSE gen_stmts(gen_stmt(g, stmts[k]), stmts, k + 1)

gen_scope(g, scope) == end_scope(gen_stmts(begin_scope(g), scope.stmts, 1))

gen_func_def(g, func_def) ==
  LET g1 == gen_func_prologue(Emit(g, LabelDef(func_def.name)))
      g2 == gen_param_passing(g1, func_def.params, Len(func_def.params) - 1)
  IN gen_func_epilogue(gen_scope(g2, func_def.body))

gen_return_stmt(g, node_return) ==
  gen_func_epilogue(Emit(gen_expr(g, node_return.expr), Ins("pop", "rax", "", 0)))

gen_stmt_exit(g, stmt_exit) ==
  LET g1 == Emit(gen_expr(g, stmt_exit.expr), Ins("mov", "rax", "", 60))
  IN Emit(pop(g1, "rdi"), Ins("syscall", "", "", 0))

\* gen_stmt_let without the search of m_vars.
gen_stmt_let_unchecked(g, stmt_let) ==
  gen_expr([g EXCEPT !.m_vars = Append(@, [name |-> stmt_let.name,
                                           stack_loc |-> g.m_stack_size])],
           stmt_let.expr)

\* The variable is recorded before its initialiser is lowered.
gen_stmt_let(g, stmt_let) ==
  IF FindVar(g, stmt_let.name) # 0 THEN Fatal(g, "identifier_already_used")
  ELSE gen_expr([g EXCEPT !.m_vars = Append(@, [name |-> stmt_let.name,
                                                stack_loc |-> g.m_stack_size])],
                stmt_let.expr)

\* The loop of the else-if visitor without the jump to the end label.
gen_else_if_falling_through(g, links, k, end_label) ==
  IF k > Len(links) THEN g
  ELSE LET next_label == NextLabel(g)
           g1 == pop(gen_expr(create_label(g), links[k].expr), "rax")
           g2 == Emit(Emit(g1, Ins("cmp", "rax", "", 0)), Ins("je", next_label, "", 0))
           g3 == gen_scope(g2, links[k].scope)
       IN gen_else_if(Emit(g3, LabelDef(next_label)), links, k + 1, end_label)

\* while (stmt_else_if != nullptr), from the k-th link on
gen_else_if(g, links, k, end_label) ==
  IF k > Len(links) THEN g
  ELSE LET next_label == NextLabel(g)
           g1 == pop(gen_expr(create_label(g), links[k].expr), "rax")
           g2 == Emit(Emit(g1, Ins("cmp", "rax", "", 0)), Ins("je", next_label, "", 0))
           g3 == Emit(gen_scope(g2, links[k].scope), Ins("jmp", end_label, "", 0))
       IN gen_else_if(Emit(g3, LabelDef(next_label)), links, k + 1, end_label)

gen_stmt_else_if(g, stmt_else_if) ==
  LET end_label == NextLabel(g) IN
  Emit(gen_else_if(create_label(g), stmt_else_if.links, 1, end_label),
       LabelDef(end_label))

gen_stmt_if(g, stmt_if) ==
  LET g1 == pop(gen_expr(g, stmt_if.expr), "rax")
      label == NextLabel(g1)
      g2 == Emit(Emit(create_label(g1), Ins("test", "rax", "rax", 0)),
                 Ins("jz", label, "", 0))
  IN Emit(gen_scope(g2, stmt_if.scope), LabelDef(label))

gen_stmt_while(g, stmt_while) ==
  LET start_label == NextLabel(g)
      ga == create_label(g)
      end_label == NextLabel(ga)
      g1 == Emit(create_label(ga), LabelDef(start_label))
      g2 == pop(gen_expr(g1, stmt_while.expr), "rax")
      g3 == Emit(Emit(g2, Ins("cmp", "rax", "", 0)), Ins("je", end_label, "", 0))
      g4 == Emit(gen_scope(g3, stmt_while.scope), Ins("jmp", start_label, "", 0))
  IN Emit(g4, LabelDef(end_label))

gen_stmt_for(g, stmt_for) ==
  LET start_label == NextLabel(g)
      ga == create_label(g)
      end_label == NextLabel(ga)
      g1 == Emit(gen_expr(create_label(ga), stmt_for.init), LabelDef(start_label))
      g2 == pop(gen_expr(g1, stmt_for.condition), "rax")
      g3 == Emit(Emit(g2, Ins("cmp", "rax", "", 0)), Ins("je", end_label, "", 0))
      g4 == gen_expr(gen_scope(g3, stmt_for.scope), stmt_for.iteration)
  IN Emit(Emit(g4, Ins("jmp", start_label, "", 0)), LabelDef(end_label))

gen_stmt_bool_lit(g, bool_lit) ==
  push(Emit(g, Ins("mov", "rax", "", IF bool_lit.bvalue THEN 1 ELSE 0)), "rax", 0)

gen_stmt_string_lit(g, str_lit) ==
  LET label == NextStringLabel(g)
      g1 == make_string_label(g)
      g2 == IF Ok(g1)
            THEN [g1 EXCEPT !.m_data_section =
                    Append(@, Ins("db", label, Join(escape_string(str_lit.chars)), 0))]
            ELSE g1
  IN push(Emit(g2, Ins("lea", "rax", label, 0)), "rax", 0)

\* gen.setup_string_length is called and defined nowhere in the repository;
\* it stands for the code that leaves the length of the string in rsi.
setup_string_length(g, reg) == Emit(g, Ins("strlen", "rsi", reg, 0))

syscall_write(g) ==
  LET g1 == Emit(Emit(g, Ins("mov", "rax", "", 1)), Ins("mov", "rdx", "rsi", 0))
  IN Emit(Emit(g1, Ins("mov", "rdi", "", 1)), Ins("syscall", "", "", 0))

reverse_stack_string(g, str_reg) == Emit(g, Ins("lea", str_reg, "[rsp]", 0))

int_to_string(g, int_reg, str_reg) ==
  LET g1 == Emit(Emit(Emit(g, Ins("mov", str_reg, "rsp", 0)),
                      Ins("mov", "rsi", int_reg, 0)), Ins("mov", "rbx", "", 10))
      loop_label == NextLabel(g1)
      g2 == Emit(create_label(g1), LabelDef(loop_label))
      g3 == [g2 EXCEPT !.m_output = @ \o
               << Ins("xor", "rdx", "rdx", 0), Ins("div", "rbx", "", 0),
                  Ins("add", "dl", "'0'", 0), Ins("push", "rdx", "", 0),
                  Ins("mov", "rsi", "rax", 0), Ins("test", "rax", "rax", 0),
                  Ins("jnz", loop_label, "", 0) >>]
  IN IF Ok(g2) THEN reverse_stack_string(g3, str_reg) ELSE g2

\* An expression is no string literal: NodeExpr's variant holds a NodeTerm or
\* a NodeBinExpr (or a NodeFuncCall), never a NodeStringLit.
is_string_expression(expr) == expr.kind = "string_lit"

gen_stmt_print(g, stmt_print) ==
  LET g1 == gen_expr(g, stmt_print.expr) IN
  IF is_string_expression(stmt_print.expr)
  THEN syscall_write(setup_string_length(
         Emit(pop(g1, "rax"), Ins("mov", "rdi", "rax", 0)), "rax"))
  ELSE syscall_write(setup_string_length(
         Emit(int_to_string(pop(g1, "rax"), "rax", "rbx"),
              Ins("mov", "rdi", "rbx", 0)), "rbx"))

gen_stmt(g, stmt) ==
  IF ~ Ok(g) THEN g
  ELSE CASE stmt.kind = "exit" -> gen_stmt_exit(g, stmt)
         [] stmt.kind = "let" -> gen_stmt_let(g, stmt)
         [] stmt.kind = "scope" -> gen_scope(g, stmt)
         [] stmt.kind = "else" -> gen_scope(g, stmt.scope)
         [] stmt.kind = "func_def" -> gen_func_def(g, stmt)
         [] stmt.kind = "return" -> gen_return_stmt(g, stmt)
         [] stmt.kind = "else_if" -> gen_stmt_else_if(g, stmt)
         [] stmt.kind = "if" -> gen_stmt_if(g, stmt)
         [] stmt.kind = "while" -> gen_stmt_while(g, stmt)
         [] stmt.kind = "for" -> gen_stmt_for(g, stmt)
         [] stmt.kind = "bool_lit" -> gen_stmt_bool_lit(g, stmt)
         [] stmt.kind = "string_lit" -> gen_stmt_string_lit(g, stmt)
         [] stmt.kind = "print" -> gen_stmt_print(g, stmt)

\* gen_prog before its loop, and after it.
gen_prog_begin(g) ==
  Emit(Emit(Emit(g, Ins("global", "_start", "", 0)), Ins("section", ".text", "", 0)),
       LabelDef("_start"))

gen_prog_end(g) ==
  LET g1 == Emit(Emit(Emit(g, Ins("mov", "rax", "", 60)), Ins("mov", "rdi", "", 0)),
                 Ins("syscall", "", "", 0))
  IN IF Ok(g1) /\ g1.m_data_section # <<>>
     THEN [g1 EXCEPT !.m_output = (@ \o <<Ins("section", ".data", "", 0)>>)
                                    \o g1.m_data_section]
     ELSE g1

\* A Generator as its constructor leaves it; the static counter is the
\* process's.
NewGenerator(slc) ==
  [m_output |-> <<>>, m_data_section |-> <<>>, m_stack_size |-> 0, m_vars |-> <<>>,
   m_scopes |-> <<>>, m_label_count |-> 0, string_label_count |-> slc,
   status |-> "ok"]
(***************************************************************************)
(* Parser                                                                  *)
(*                                                                         *)
(* The parsing functions are operators of the token vector and m_index;    *)
(* each returns a Parsed record: st is "ok" when the std::optional it      *)
(* returns holds a node, "none" when it is empty, and otherwise names the  *)
(* fatal error that ended the process. i is m_index on return.             *)
(***************************************************************************)
NoToken == [type |-> "none", value |-> NoValue]
NoNode == [kind |-> "none"]
\* A node edge that was never assigned: arena storage is not initialised.
Uninitialized == [kind |-> "uninitialized"]

Parsed(st, node, i) == [st |-> st, node |-> node, i |-> i]
Failed(r) == r.st \notin {"ok", "none"}

\* Parser::peek
PeekTok(toks, i, offset) ==
  IF i + offset >= Len(toks) THEN NoToken ELSE toks[i + offset + 1]
TypeAt(toks, i, offset) == PeekTok(toks, i, offset).type

\* Parser::try_consume(type, err_msg): the index after the token, or -1 when
\* the message is printed and the process exits.
try_consume(toks, i, type) == IF TypeAt(toks, i, 0) = type THEN i + 1 ELSE -1

\* expect(type, message) is declared and defined nowhere in the repository;
\* its call sites use it as try_consume(type, err_msg).
expect(toks, i, type) == try_consume(toks, i, type)

\* bin_prec; -1 for "not a binary operator"
bin_prec(type) ==
  CASE type \in {"minus", "plus"} -> 0
    [] type \in {"fslash", "star"} -> 1
    [] OTHER -> -1

\* The node parse_expr builds for an operator token.
BinKindOf(type) ==
  CASE type = "plus" -> "add"
    [] type = "eq_eq" -> "eq"
    [] type = "and_and" -> "and"
    [] type = "or_or" -> "or"
    [] type = "star" -> "multi"
    [] type = "minus" -> "sub"
    [] type = "fslash" -> "div"

\* The characters of a string token's value.
StringAlphabet == {"h", "i", "a", "\n", "\t", "\"", "\\"}
CharsOf(s) == CHOOSE cs \in SeqsUpTo(StringAlphabet, Len(s)) : Join(cs) = s


\* Parser::fn(...): a call of one of the parsing functions that call one
\* another, with the tokens, m_index and what else the function is given.
RECURSIVE Parser(_, _, _, _)

\* The loop of parse_param_list
parse_params(toks, i, params) ==
  IF TypeAt(toks, i, 0) \in {"none", "close_paren"} THEN Parsed("ok", params, i)
  ELSE LET j == expect(toks, i, "ident") IN
       IF j = -1 THEN Parsed("expected_parameter", params, i)
       ELSE Parser("parse_params", toks, IF TypeAt(toks, j, 0) = "comma" THEN j + 1 ELSE j,
                         Append(params, PeekTok(toks, i, 0).value[1]))

parse_param_list(toks, i) ==
  LET j == expect(toks, i, "open_paren") IN
  IF j = -1 THEN Parsed("expected_open_paren", <<>>, i)
  ELSE LET r == Parser("parse_params", toks, j, <<>>) IN
       IF Failed(r) THEN r
       ELSE IF expect(toks, r.i, "close_paren") = -1
         THEN Parsed("expected_close_paren", r.node, r.i)
       ELSE Parsed("ok", r.node, r.i + 1)

\* The loop of parse_func_call
parse_args(toks, i, args) ==
  IF TypeAt(toks, i, 0) \in {"none", "close_paren"} THEN Parsed("ok", args, i)
  ELSE LET arg == Parser("parse_expr", toks, i, 0) IN
       IF arg.st # "ok" THEN arg
       ELSE Parser("parse_args", toks,
                   IF TypeAt(toks, arg.i, 0) = "comma" THEN arg.i + 1 ELSE arg.i,
                   Append(args, arg.node))

parse_func_call(toks, i) ==
  LET j == expect(toks, i, "ident")
      k == IF j = -1 THEN -1 ELSE expect(toks, j, "open_paren")
  IN IF j = -1 THEN Parsed("expected_function_name", NoNode, i)
     ELSE IF k = -1 THEN Parsed("expected_open_paren", NoNode, j)
     ELSE LET r == Parser("parse_args", toks, k, <<>>) IN
          IF r.st # "ok" THEN Parsed(r.st, NoNode, r.i)
          ELSE IF expect(toks, r.i, "close_paren") = -1
            THEN Parsed("expected_close_paren", NoNode, r.i)
          ELSE Parsed("ok", FuncCall(PeekTok(toks, i, 0).value[1], r.node), r.i + 1)

\* while (auto stmt = parse_stmt()) scope->stmts.push_back(stmt.value())
parse_scope_stmts(toks, i, stmts) ==
  LET r == Parser("parse_stmt", toks, i, <<>>) IN
  IF r.st = "ok" THEN Parser("parse_scope_stmts", toks, r.i, Append(stmts, r.node))
  ELSE IF r.st = "none" THEN Parsed("ok", stmts, r.i)
  ELSE r

parse_scope(toks, i) ==
  IF TypeAt(toks, i, 0) # "open_curly" THEN Parsed("none", NoNode, i)
  ELSE LET r == Parser("parse_scope_stmts", toks, i + 1, <<>>) IN
       IF Failed(r) THEN Parsed(r.st, NoNode, r.i)
       ELSE IF try_consume(toks, r.i, "close_curly") = -1
         THEN Parsed("expected_close_curly", NoNode, r.i)
       ELSE Parsed("ok", Scope(r.node), r.i + 1)

parse_func_def(toks, i) ==
  LET j == expect(toks, i, "function")
      k == IF j = -1 THEN -1 ELSE expect(toks, j, "ident")
  IN IF j = -1 THEN Parsed("expected_function_keyword", NoNode, i)
     ELSE IF k = -1 THEN Parsed("expected_function_name", NoNode, j)
     ELSE LET params == parse_param_list(toks, k)
              body == Parser("parse_scope", toks, params.i, <<>>)
          IN IF Failed(params) THEN Parsed(params.st, NoNode, params.i)
             ELSE IF Failed(body) THEN body
             ELSE IF body.st = "none" THEN Parsed("bad_optional_access", NoNode, body.i)
             ELSE Parsed("ok", FuncDef(PeekTok(toks, j, 0).value[1], params.node, body.node),
                         body.i)

parse_term_without_func_def(toks, i) ==
  LET type == TypeAt(toks, i, 0) IN
  CASE type = "true_" -> Parsed("ok", BoolLit(TRUE), i + 1)
    [] type = "false_" -> Parsed("ok", BoolLit(FALSE), i + 1)
    [] type = "int_lit" -> Parsed("ok", IntLit(PeekTok(toks, i, 0).value[1]), i + 1)
    [] type = "ident" -> Parsed("ok", Ident(PeekTok(toks, i, 0).value[1]), i + 1)
    [] type = "open_paren" ->
         LET expr == Parser("parse_expr", toks, i + 1, 0) IN
         IF Failed(expr) THEN expr
         ELSE IF expr.st = "none" THEN Parsed("expected_expression", NoNode, expr.i)
         ELSE IF try_consume(toks, expr.i, "close_paren") = -1
           THEN Parsed("expected_close_paren", NoNode, expr.i)
         ELSE Parsed("ok", Paren(expr.node), expr.i + 1)
    [] OTHER -> Parsed("none", NoNode, i)

parse_term(toks, i) ==
  LET type == TypeAt(toks, i, 0) IN
  CASE type = "true_" -> Parsed("ok", BoolLit(TRUE), i + 1)
    [] type = "false_" -> Parsed("ok", BoolLit(FALSE), i + 1)
    [] type = "int_lit" -> Parsed("ok", IntLit(PeekTok(toks, i, 0).value[1]), i + 1)
    [] type = "ident" -> Parsed("ok", Ident(PeekTok(toks, i, 0).value[1]), i + 1)
    [] type = "open_paren" ->
         LET expr == Parser("parse_expr", toks, i + 1, 0) IN
         IF Failed(expr) THEN expr
         ELSE IF expr.st = "none" THEN Parsed("expected_expression", NoNode, expr.i)
         ELSE IF try_consume(toks, expr.i, "close_paren") = -1
           THEN Parsed("expected_close_paren", NoNode, expr.i)
         ELSE Parsed("ok", Paren(expr.node), expr.i + 1)
    [] OTHER -> Parser("parse_func_def", toks, i, <<>>)

\* The loop of parse_expr with the right operand parsed at prec, not
\* prec + 1.
parse_expr_loop_same_prec(toks, i, expr_lhs, min_prec) ==
  LET prec == bin_prec(TypeAt(toks, i, 0)) IN
  IF prec = -1 \/ prec < min_prec THEN Parsed("ok", expr_lhs, i)
  ELSE LET expr_rhs == Parser("parse_expr", toks, i + 1, prec) IN
       IF Failed(expr_rhs) THEN expr_rhs
       ELSE IF expr_rhs.st = "none"
         THEN Parsed("unable_to_parse_expression", NoNode, expr_rhs.i)
       ELSE Parser("parse_expr_loop", toks, expr_rhs.i,
                   <<Bin(BinKindOf(TypeAt(toks, i, 0)), expr_lhs, expr_rhs.node),
                     min_prec>>)

\* The while (true) loop of parse_expr, with expr_lhs as built so far.
parse_expr_loop(toks, i, expr_lhs, min_prec) ==
  LET prec == bin_prec(TypeAt(toks, i, 0)) IN
  IF prec = -1 \/ prec < min_prec THEN Parsed("ok", expr_lhs, i)
  ELSE LET expr_rhs == Parser("parse_expr", toks, i + 1, prec + 1) IN
       IF Failed(expr_rhs) THEN expr_rhs
       ELSE IF expr_rhs.st = "none"
         THEN Parsed("unable_to_parse_expression", NoNode, expr_rhs.i)
       ELSE Parser("parse_expr_loop", toks, expr_rhs.i,
                   <<Bin(BinKindOf(TypeAt(toks, i, 0)), expr_lhs, expr_rhs.node),
                     min_prec>>)

parse_expr(toks, i, min_prec) ==
  IF TypeAt(toks, i, 0) = "ident" /\ TypeAt(toks, i, 1) = "open_paren"
  THEN Parser("parse_func_call", toks, i, <<>>)
  ELSE LET term_lhs == Parser("parse_term", toks, i, <<>>) IN
       IF term_lhs.st # "ok" THEN term_lhs
       ELSE Parser("parse_expr_loop", toks, term_lhs.i, <<term_lhs.node, min_prec>>)

parse_else_if_chain(toks, i) ==
  LET expr == Parser("parse_expr", toks, i, 0)
      scope == Parser("parse_scope", toks, expr.i, <<>>)
  IN IF Failed(expr) THEN expr
     ELSE IF expr.st = "none" THEN Parsed("expected_expression", NoNode, expr.i)
     ELSE IF Failed(scope) THEN scope
     ELSE IF scope.st = "none" THEN Parsed("expected_scope", NoNode, scope.i)
     ELSE IF TypeAt(toks, scope.i, 0) = "else_if"
       THEN LET next == Parser("parse_else_if_chain", toks, scope.i, <<>>) IN
            IF next.st # "ok" THEN next
            ELSE Parsed("ok", StmtElseIf(<<ElseIfLink(expr.node, scope.node)>>
                                         \o next.node.links), next.i)
     ELSE Parsed("ok", StmtElseIf(<<ElseIfLink(expr.node, scope.node)>>), scope.i)

\* The branches of parse_stmt, each from the index of its first token.
parse_stmt_exit(toks, i) ==
  LET node_expr == Parser("parse_expr", toks, i + 2, 0)
      \* "Invalid expression" is printed and parsing goes on
      expr == IF node_expr.st = "ok" THEN node_expr.node ELSE Uninitialized
      j == try_consume(toks, node_expr.i, "close_paren")
  IN IF Failed(node_expr) THEN node_expr
     ELSE IF j = -1 THEN Parsed("expected_close_paren", NoNode, node_expr.i)
     ELSE IF try_consume(toks, j, "semi") = -1 THEN Parsed("expected_semi", NoNode, j)
     ELSE Parsed("ok", StmtExit(expr), j + 1)

parse_stmt_let(toks, i) ==
  LET expr == Parser("parse_expr", toks, i + 3, 0) IN
  IF Failed(expr) THEN expr
  ELSE IF expr.st = "none" THEN Parsed("invalid_expression", NoNode, expr.i)
  ELSE IF try_consume(toks, expr.i, "semi") = -1
    THEN Parsed("expected_semi", NoNode, expr.i)
  ELSE Parsed("ok", StmtLet(PeekTok(toks, i + 1, 0).value[1], expr.node), expr.i + 1)

parse_stmt_if(toks, i) ==
  LET j == try_consume(toks, i + 1, "open_paren")
      expr == Parser("parse_expr", toks, j, 0)
      k == try_consume(toks, expr.i, "close_paren")
      scope == Parser("parse_scope", toks, k, <<>>)
  IN IF j = -1 THEN Parsed("expected_open_paren", NoNode, i + 1)
     ELSE IF Failed(expr) THEN expr
     ELSE IF expr.st = "none" THEN Parsed("invalid_expression", NoNode, expr.i)
     ELSE IF k = -1 THEN Parsed("expected_close_paren", NoNode, expr.i)
     ELSE IF Failed(scope) THEN scope
     ELSE IF scope.st = "none" THEN Parsed("invalid_scope", NoNode, scope.i)
     ELSE Parsed("ok", StmtIf(expr.node, scope.node), scope.i)

parse_stmt_else(toks, i) ==
  LET scope == Parser("parse_scope", toks, i + 1, <<>>) IN
  IF Failed(scope) THEN scope
  ELSE IF scope.st = "none" THEN Parsed("expected_scope", NoNode, scope.i)
  ELSE Parsed("ok", StmtElse(scope.node), scope.i)

parse_stmt_while(toks, i) ==
  LET expr == Parser("parse_expr", toks, i + 1, 0)
      scope == Parser("parse_scope", toks, expr.i, <<>>)
  IN IF Failed(expr) THEN expr
     ELSE IF expr.st = "none" THEN Parsed("expected_expression", NoNode, expr.i)
     ELSE IF Failed(scope) THEN scope
     ELSE IF scope.st = "none" THEN Parsed("expected_scope", NoNode, scope.i)
     ELSE Parsed("ok", StmtWhile(expr.node, scope.node), scope.i)

\* The three expressions are used unchecked: value() of an empty optional
\* throws after the scope has been parsed.
parse_stmt_for(toks, i) ==
  LET j == try_consume(toks, i + 1, "open_paren")
      init == Parser("parse_expr", toks, j, 0)
      k == try_consume(toks, init.i, "semi")
      condition == Parser("parse_expr", toks, k, 0)
      l == try_consume(toks, condition.i, "semi")
      iteration == Parser("parse_expr", toks, l, 0)
      m == try_consume(toks, iteration.i, "close_paren")
      scope == Parser("parse_scope", toks, m, <<>>)
  IN IF j = -1 THEN Parsed("expected_open_paren", NoNode, i + 1)
     ELSE IF Failed(init) THEN init
     ELSE IF k = -1 THEN Parsed("expected_semi", NoNode, init.i)
     ELSE IF Failed(condition) THEN condition
     ELSE IF l = -1 THEN Parsed("expected_semi", NoNode, condition.i)
     ELSE IF Failed(iteration) THEN iteration
     ELSE IF m = -1 THEN Parsed("expected_close_paren", NoNode, iteration.i)
     ELSE IF Failed(scope) THEN scope
     ELSE IF scope.st = "none" THEN Parsed("expected_scope", NoNode, scope.i)
     ELSE IF "none" \in {init.st, condition.st, iteration.st}
       THEN Parsed("bad_optional_access", NoNode, scope.i)
     ELSE Parsed("ok", StmtFor(init.node, condition.node, iteration.node, scope.node),
                 scope.i)

parse_stmt_print(toks, i) ==
  LET expr == Parser("parse_expr", toks, i + 1, 0) IN
  IF Failed(expr) THEN expr
  ELSE IF expr.st = "none" THEN Parsed("expected_expression", NoNode, expr.i)
  ELSE IF try_consume(toks, expr.i, "semi") = -1
    THEN Parsed("expected_semi", NoNode, expr.i)
  ELSE Parsed("ok", StmtPrint(expr.node), expr.i + 1)

parse_stmt(toks, i) ==
  LET type == TypeAt(toks, i, 0) IN
  IF type = "none" THEN Parsed("bad_optional_access", NoNode, i)
  ELSE IF type = "exit" /\ TypeAt(toks, i, 1) = "open_paren" THEN parse_stmt_exit(toks, i)
  ELSE IF type = "let" /\ TypeAt(toks, i, 1) = "ident" /\ TypeAt(toks, i, 2) = "eq"
    THEN parse_stmt_let(toks, i)
  ELSE IF type = "open_curly" THEN Parser("parse_scope", toks, i, <<>>)
  ELSE IF type = "if_" THEN parse_stmt_if(toks, i)
  ELSE IF type = "else_" THEN parse_stmt_else(toks, i)
  ELSE IF type = "else_if" THEN Parser("parse_else_if_chain", toks, i + 1, <<>>)
  ELSE IF type = "while_" THEN parse_stmt_while(toks, i)
  ELSE IF type = "for_" THEN parse_stmt_for(toks, i)
  ELSE IF type = "string_lit"
    THEN Parsed("ok", StmtStringLit(CharsOf(PeekTok(toks, i, 0).value[1])), i + 1)
  ELSE IF type = "true_" THEN Parsed("ok", BoolLit(TRUE), i + 1)
  ELSE IF type = "false_" THEN Parsed("ok", BoolLit(FALSE), i + 1)
  ELSE IF type = "print" THEN parse_stmt_print(toks, i)
  ELSE Parsed("none", NoNode, i)

\* The loop of parse_prog, with prog.stmts as built so far.
RECURSIVE parse_prog_loop(_, _, _)
parse_prog_loop(toks, i, stmts) ==
  IF TypeAt(toks, i, 0) = "none" THEN Parsed("ok", stmts, i)
  ELSE LET stmt == Parser("parse_stmt", toks, i, <<>>) IN
       IF stmt.st = "ok" THEN parse_prog_loop(toks, stmt.i, Append(stmts, stmt.node))
       ELSE IF stmt.st = "none" THEN Parsed("invalid_statement", stmts, stmt.i)
       ELSE stmt

parse_prog(toks) == parse_prog_loop(toks, 0, <<>>)

Parser(fn, toks, i, arg) ==
  CASE fn = "parse_expr" -> parse_expr(toks, i, arg)
    [] fn = "parse_expr_loop" -> parse_expr_loop(toks, i, arg[1], arg[2])
    [] fn = "parse_term" -> parse_term(toks, i)
    [] fn = "parse_func_call" -> parse_func_call(toks, i)
    [] fn = "parse_args" -> parse_args(toks, i, arg)
    [] fn = "parse_func_def" -> parse_func_def(toks, i)
    [] fn = "parse_scope" -> parse_scope(toks, i)
    [] fn = "parse_scope_stmts" -> parse_scope_stmts(toks, i, arg)
    [] fn = "parse_else_if_chain" -> parse_else_if_chain(toks, i)
    [] fn = "parse_stmt" -> parse_stmt(toks, i)
    [] fn = "parse_params" -> parse_params(toks, i, arg)

(***************************************************************************)
(* The parser again, with the nodes where the arena puts them              *)
(*                                                                         *)
(* A pointer is the number of the alloc call that returned it (alloc moves *)
(* m_offset on by sizeof(T) > 0, so no two calls return the same address); *)
(* 0 is a pointer that was never assigned or is nullptr. nodes[p] is the   *)
(* struct at p with its fields as the parser has assigned them. A parsing  *)
(* function takes and returns a record: nodes, m_index as i, st as above   *)
(* and ret, the pointer (or vector of pointers) it returns.                *)
(***************************************************************************)
Heap(st, ns, i, ret) == [st |-> st, nodes |-> ns, i |-> i, ret |-> ret]

\* auto p = m_allocator.alloc<T>() and the assignments to p's fields
New(h, node) == [h EXCEPT !.nodes = Append(@, node), !.ret = Len(h.nodes) + 1]

\* A node of the given type whose var is the pointer just returned.
Wrap(h, type) == New(h, [type |-> type, var |-> h.ret])

\* m_index moved to i; a return of p; an empty optional ("none") or the
\* exit of the process at m_index i.
At(h, i) == [h EXCEPT !.i = i]
Ret(h, p) == [h EXCEPT !.st = "ok", !.ret = p]
Stop(h, why, i) == [h EXCEPT !.st = why, !.i = i, !.ret = 0]

BinTypeOf(type) ==
  CASE type = "plus" -> "NodeBinExprAdd"
    [] type = "eq_eq" -> "NodeBinExprEq"
    [] type = "and_and" -> "NodeBinExprAnd"
    [] type = "or_or" -> "NodeBinExprOr"
    [] type = "star" -> "NodeBinExprMulti"
    [] type = "minus" -> "NodeBinExprSub"
    [] type = "fslash" -> "NodeBinExprDiv"

RECURSIVE HeapParser(_, _, _, _)

heap_parse_func_def(toks, h) ==
  LET j == expect(toks, h.i, "function")
      k == IF j = -1 THEN -1 ELSE expect(toks, j, "ident")
  IN IF j = -1 THEN Stop(h, "expected_function_keyword", h.i)
     ELSE IF k = -1 THEN Stop(h, "expected_function_name", j)
     ELSE LET params == parse_param_list(toks, k)
              body == HeapParser("parse_scope", toks, At(h, params.i), <<>>)
          IN IF Failed(params) THEN Stop(h, params.st, params.i)
             ELSE IF Failed(body) THEN body
             ELSE IF body.st = "none" THEN Stop(body, "bad_optional_access", body.i)
             ELSE New(body, [type |-> "NodeFuncDef",
                             ident |-> PeekTok(toks, j, 0).value[1],
                             params |-> params.node, body |-> body.ret])

\* The loop of parse_func_call, with args as pushed so far.
heap_parse_args(toks, h, args) ==
  IF TypeAt(toks, h.i, 0) \in {"none", "close_paren"} THEN Ret(h, args)
  ELSE LET arg == HeapParser("parse_expr", toks, h, 0) IN
       IF arg.st # "ok" THEN arg
       ELSE HeapParser("parse_args", toks,
                       At(arg, IF TypeAt(toks, arg.i, 0) = "comma" THEN arg.i + 1
                                                                    ELSE arg.i),
                       Append(args, arg.ret))

heap_parse_func_call(toks, h) ==
  LET j == expect(toks, h.i, "ident")
      k == IF j = -1 THEN -1 ELSE expect(toks, j, "open_paren")
  IN IF j = -1 THEN Stop(h, "expected_function_name", h.i)
     ELSE IF k = -1 THEN Stop(h, "expected_open_paren", j)
     ELSE LET r == HeapParser("parse_args", toks, At(h, k), <<>>) IN
          IF r.st # "ok" THEN Stop(r, r.st, r.i)
          ELSE IF expect(toks, r.i, "close_paren") = -1
            THEN Stop(r, "expected_close_paren", r.i)
          ELSE New(At(r, r.i + 1), [type |-> "NodeFuncCall",
                                    ident |-> PeekTok(toks, h.i, 0).value[1],
                                    args |-> r.ret])

heap_parse_term(toks, h) ==
  LET type == TypeAt(toks, h.i, 0)
      value == PeekTok(toks, h.i, 0).value
      next == At(h, h.i + 1)
  IN
  CASE type = "true_" -> Wrap(New(next, [type |-> "NodeBoolLit", value |-> TRUE]), "NodeTerm")
    [] type = "false_" ->
         Wrap(New(next, [type |-> "NodeBoolLit", value |-> FALSE]), "NodeTerm")
    [] type = "int_lit" ->
         Wrap(New(next, [type |-> "NodeTermIntLit", int_lit |-> value[1]]), "NodeTerm")
    [] type = "ident" ->
         Wrap(New(next, [type |-> "NodeTermIdent", ident |-> value[1]]), "NodeTerm")
    [] type = "open_paren" ->
         LET expr == HeapParser("parse_expr", toks, next, 0) IN
         IF Failed(expr) THEN expr
         ELSE IF expr.st = "none" THEN Stop(expr, "expected_expression", expr.i)
         ELSE IF try_consume(toks, expr.i, "close_paren") = -1
           THEN Stop(expr, "expected_close_paren", expr.i)
         ELSE Wrap(New(At(expr, expr.i + 1),
                       [type |-> "NodeTermParen", expr |-> expr.ret]), "NodeTerm")
    [] OTHER ->
         LET func_def == HeapParser("parse_func_def", toks, h, <<>>) IN
         IF func_def.st # "ok" THEN func_def ELSE Wrap(func_def, "NodeStmt")

\* The body of the loop of parse_expr after expr_rhs, which h returns: the
\* operand is attached to expr_lhs, the old node, without the copy.
fold_without_copy(h, type, expr_lhs) ==
  LET expr_rhs == h.ret
      expr == Len(h.nodes) + 1
      expr_lhs2 == Len(h.nodes) + 2
      op == Len(h.nodes) + 3
      allocated == h.nodes \o <<[type |-> "NodeBinExpr", var |-> 0],
                                [type |-> "NodeExpr", var |-> 0],
                                [type |-> type, lhs |-> 0, rhs |-> 0]>>
      linked == [allocated EXCEPT ![op].lhs = expr_lhs, ![op].rhs = expr_rhs]
      held == [linked EXCEPT ![expr].var = op]
  IN [h EXCEPT !.nodes = [held EXCEPT ![expr_lhs].var = expr]]

\* The body of the loop of parse_expr after expr_rhs, which h returns:
\* expr, expr_lhs2 and the operator node are allocated, expr_lhs2 takes
\* over what expr_lhs points to, and expr_lhs is pointed at expr.
fold(h, type, expr_lhs) ==
  LET expr_rhs == h.ret
      expr == Len(h.nodes) + 1
      expr_lhs2 == Len(h.nodes) + 2
      op == Len(h.nodes) + 3
      allocated == h.nodes \o <<[type |-> "NodeBinExpr", var |-> 0],
                                [type |-> "NodeExpr", var |-> 0],
                                [type |-> type, lhs |-> 0, rhs |-> 0]>>
      copied == [allocated EXCEPT ![expr_lhs2].var = allocated[expr_lhs].var]
      linked == [copied EXCEPT ![op].lhs = expr_lhs2, ![op].rhs = expr_rhs]
      held == [linked EXCEPT ![expr].var = op]
  IN [h EXCEPT !.nodes = [held EXCEPT ![expr_lhs].var = expr]]

\* The while (true) loop of parse_expr.
heap_parse_expr_loop(toks, h, expr_lhs, min_prec) ==
  LET prec == bin_prec(TypeAt(toks, h.i, 0)) IN
  IF prec = -1 \/ prec < min_prec THEN Ret(h, expr_lhs)
  ELSE LET expr_rhs == HeapParser("parse_expr", toks, At(h, h.i + 1), prec + 1) IN
       IF Failed(expr_rhs) THEN expr_rhs
       ELSE IF expr_rhs.st = "none"
         THEN Stop(expr_rhs, "unable_to_parse_expression", expr_rhs.i)
       ELSE HeapParser("parse_expr_loop", toks,
                       fold(expr_rhs, BinTypeOf(TypeAt(toks, h.i, 0)), expr_lhs),
                       <<expr_lhs, min_prec>>)

heap_parse_expr(toks, h, min_prec) ==
  IF TypeAt(toks, h.i, 0) = "ident" /\ TypeAt(toks, h.i, 1) = "open_paren"
  THEN HeapParser("parse_func_call", toks, h, <<>>)
  ELSE LET term_lhs == HeapParser("parse_term", toks, h, <<>>) IN
       IF term_lhs.st # "ok" THEN term_lhs
       ELSE HeapParser("parse_expr_loop", toks, Wrap(term_lhs, "NodeExpr"),
                       <<Len(term_lhs.nodes) + 1, min_prec>>)

\* while (auto stmt = parse_stmt()) scope->stmts.push_back(stmt.value())
heap_parse_scope_stmts(toks, h, scope) ==
  LET r == HeapParser("parse_stmt", toks, h, <<>>) IN
  IF r.st = "ok"
  THEN HeapParser("parse_scope_stmts", toks,
                  [r EXCEPT !.nodes[scope].stmts = Append(@, r.ret)], scope)
  ELSE IF r.st = "none" THEN Ret(r, scope)
  ELSE r

heap_parse_scope(toks, h) ==
  IF TypeAt(toks, h.i, 0) # "open_curly" THEN Stop(h, "none", h.i)
  ELSE LET r == HeapParser("parse_scope_stmts", toks,
                           New(At(h, h.i + 1), [type |-> "NodeScope", stmts |-> <<>>]),
                           Len(h.nodes) + 1)
       IN IF Failed(r) THEN r
          ELSE IF try_consume(toks, r.i, "close_curly") = -1
            THEN Stop(r, "expected_close_curly", r.i)
          ELSE At(r, r.i + 1)

heap_parse_else_if_chain(toks, h) ==
  LET expr == HeapParser("parse_expr", toks, h, 0)
      scope == HeapParser("parse_scope", toks, expr, <<>>)
      stmt_else_if == New(scope, [type |-> "NodeStmtElseIf", expr |-> expr.ret,
                                  scope |-> scope.ret, next |-> 0])
  IN IF Failed(expr) THEN expr
     ELSE IF expr.st = "none" THEN Stop(expr, "expected_expression", expr.i)
     ELSE IF Failed(scope) THEN scope
     ELSE IF scope.st = "none" THEN Stop(scope, "expected_scope", scope.i)
     ELSE IF TypeAt(toks, scope.i, 0) = "else_if"
       THEN LET next == HeapParser("parse_else_if_chain", toks, stmt_else_if, <<>>) IN
            IF next.st # "ok" THEN next
            ELSE Ret([next EXCEPT !.nodes[stmt_else_if.ret].next = next.ret],
                     stmt_else_if.ret)
     ELSE stmt_else_if

\* p->expr = e and p->scope = s, for the pointer h returns
SetExpr(h, p) == [h EXCEPT !.nodes[p].expr = h.ret]
SetScope(h, p) == [h EXCEPT !.nodes[p].scope = h.ret]

heap_parse_stmt(toks, h) ==
  LET type == TypeAt(toks, h.i, 0)
      after == At(h, h.i + 1)
  IN
  IF type = "none" THEN Stop(h, "bad_optional_access", h.i)
  ELSE IF type = "exit" /\ TypeAt(toks, h.i, 1) = "open_paren" THEN
    LET stmt_exit == New(At(h, h.i + 2), [type |-> "NodeStmtExit", expr |-> 0])
        node_expr == HeapParser("parse_expr", toks, stmt_exit, 0)
        j == try_consume(toks, node_expr.i, "close_paren")
    IN IF Failed(node_expr) THEN node_expr
       ELSE IF j = -1 THEN Stop(node_expr, "expected_close_paren", node_expr.i)
       ELSE IF try_consume(toks, j, "semi") = -1 THEN Stop(node_expr, "expected_semi", j)
       ELSE Wrap(Ret(At(IF node_expr.st = "ok" THEN SetExpr(node_expr, stmt_exit.ret)
                                                ELSE node_expr, j + 1),
                     stmt_exit.ret), "NodeStmt")
  ELSE IF type = "let" /\ TypeAt(toks, h.i, 1) = "ident" /\ TypeAt(toks, h.i, 2) = "eq" THEN
    LET stmt_let == New(At(h, h.i + 3),
                        [type |-> "NodeStmtLet", ident |-> PeekTok(toks, h.i, 1).value[1],
                         expr |-> 0])
        expr == HeapParser("parse_expr", toks, stmt_let, 0)
    IN IF Failed(expr) THEN expr
       ELSE IF expr.st = "none" THEN Stop(expr, "invalid_expression", expr.i)
       ELSE IF try_consume(toks, expr.i, "semi") = -1
         THEN Stop(expr, "expected_semi", expr.i)
       ELSE Wrap(Ret(At(SetExpr(expr, stmt_let.ret), expr.i + 1), stmt_let.ret),
                 "NodeStmt")
  ELSE IF type = "open_curly" THEN
    LET scope == HeapParser("parse_scope", toks, h, <<>>) IN
    IF scope.st # "ok" THEN scope ELSE Wrap(scope, "NodeStmt")
  ELSE IF type = "if_" THEN
    LET j == try_consume(toks, h.i + 1, "open_paren")
        stmt_if == New(At(h, j), [type |-> "NodeStmtIf", expr |-> 0, scope |-> 0])
        expr == HeapParser("parse_expr", toks, stmt_if, 0)
        k == try_consume(toks, expr.i, "close_paren")
        scope == HeapParser("parse_scope", toks, At(SetExpr(expr, stmt_if.ret), k), <<>>)
    IN IF j = -1 THEN Stop(h, "expected_open_paren", h.i + 1)
       ELSE IF Failed(expr) THEN expr
       ELSE IF expr.st = "none" THEN Stop(expr, "invalid_expression", expr.i)
       ELSE IF k = -1 THEN Stop(expr, "expected_close_paren", expr.i)
       ELSE IF Failed(scope) THEN scope
       ELSE IF scope.st = "none" THEN Stop(scope, "invalid_scope", scope.i)
       ELSE Wrap(Ret(SetScope(scope, stmt_if.ret), stmt_if.ret), "NodeStmt")
  ELSE IF type = "else_" THEN
    LET scope == HeapParser("parse_scope", toks, after, <<>>) IN
    IF Failed(scope) THEN scope
    ELSE IF scope.st = "none" THEN Stop(scope, "expected_scope", scope.i)
    ELSE Wrap(New(scope, [type |-> "NodeStmtElse", scope |-> scope.ret]), "NodeStmt")
  ELSE IF type = "else_if" THEN
    LET stmt_else_if == HeapParser("parse_else_if_chain", toks, after, <<>>) IN
    IF stmt_else_if.st # "ok" THEN stmt_else_if ELSE Wrap(stmt_else_if, "NodeStmt")
  ELSE IF type = "while_" THEN
    LET expr == HeapParser("parse_expr", toks, after, 0)
        scope == HeapParser("parse_scope", toks, expr, <<>>)
    IN IF Failed(expr) THEN expr
       ELSE IF expr.st = "none" THEN Stop(expr, "expected_expression", expr.i)
       ELSE IF Failed(scope) THEN scope
       ELSE IF scope.st = "none" THEN Stop(scope, "expected_scope", scope.i)
       ELSE Wrap(New(scope, [type |-> "NodeStmtWhile", expr |-> expr.ret,
                             scope |-> scope.ret]), "NodeStmt")
  ELSE IF type = "for_" THEN
    LET j == try_consume(toks, h.i + 1, "open_paren")
        init == HeapParser("parse_expr", toks, At(h, j), 0)
        k == try_consume(toks, init.i, "semi")
        condition == HeapParser("parse_expr", toks, At(init, k), 0)
        l == try_consume(toks, condition.i, "semi")
        iteration == HeapParser("parse_expr", toks, At(condition, l), 0)
        m == try_consume(toks, iteration.i, "close_paren")
        scope == HeapParser("parse_scope", toks, At(iteration, m), <<>>)
    IN IF j = -1 THEN Stop(h, "expected_open_paren", h.i + 1)
       ELSE IF Failed(init) THEN init
       ELSE IF k = -1 THEN Stop(init, "expected_semi", init.i)
       ELSE IF Failed(condition) THEN condition
       ELSE IF l = -1 THEN Stop(condition, "expected_semi", condition.i)
       ELSE IF Failed(iteration) THEN iteration
       ELSE IF m = -1 THEN Stop(iteration, "expected_close_paren", iteration.i)
       ELSE IF Failed(scope) THEN scope
       ELSE IF scope.st = "none" THEN Stop(scope, "expected_scope", scope.i)
       ELSE IF "none" \in {init.st, condition.st, iteration.st}
         THEN Stop(scope, "bad_optional_access", scope.i)
       ELSE Wrap(New(scope, [type |-> "NodeStmtFor", init |-> init.ret,
                             condition |-> condition.ret, iteration |-> iteration.ret,
                             scope |-> scope.ret]), "NodeStmt")
  ELSE IF type = "string_lit" THEN
    New(after, [type |-> "NodeStringLit",
                value |-> CharsOf(PeekTok(toks, h.i, 0).value[1])])
  ELSE IF type = "true_" THEN New(after, [type |-> "NodeBoolLit", value |-> TRUE])
  ELSE IF type = "false_" THEN New(after, [type |-> "NodeBoolLit", value |-> FALSE])
  ELSE IF type = "print" THEN
    LET expr == HeapParser("parse_expr", toks, after, 0) IN
    IF Failed(expr) THEN expr
    ELSE IF expr.st = "none" THEN Stop(expr, "expected_expression", expr.i)
    ELSE IF try_consume(toks, expr.i, "semi") = -1
      THEN Stop(expr, "expected_semi", expr.i)
    ELSE Wrap(New(At(expr, expr.i + 1), [type |-> "NodeStmtPrint", expr |-> expr.ret]),
              "NodeStmt")
  ELSE Stop(h, "none", h.i)

\* Parser::fn(...) on the nodes: a call of one of the parsing functions.
HeapParser(fn, toks, h, arg) ==
  CASE fn = "parse_expr" -> heap_parse_expr(toks, h, arg)
    [] fn = "parse_expr_loop" -> heap_parse_expr_loop(toks, h, arg[1], arg[2])
    [] fn = "parse_term" -> heap_parse_term(toks, h)
    [] fn = "parse_func_call" -> heap_parse_func_call(toks, h)
    [] fn = "parse_args" -> heap_parse_args(toks, h, arg)
    [] fn = "parse_func_def" -> heap_parse_func_def(toks, h)
    [] fn = "parse_scope" -> heap_parse_scope(toks, h)
    [] fn = "parse_scope_stmts" -> heap_parse_scope_stmts(toks, h, arg)
    [] fn = "parse_else_if_chain" -> heap_parse_else_if_chain(toks, h)
    [] fn = "parse_stmt" -> heap_parse_stmt(toks, h)
(***************************************************************************)
(* The processor                                                           *)
(*                                                                         *)
(* out.asm, assembled and linked, runs from _start with the registers      *)
(* zeroed, as Linux starts a static executable. A register holds a 64-bit  *)
(* word, kept as an integer: a negative n stands for the word 2^64 + n.    *)
(* The steps below are those of the instructions that the lowering of      *)
(* let, exit, literals, identifiers and arithmetic emits; a word the       *)
(* integers of the model cannot hold ends the run as "unrepresentable".    *)
(* Of the flags only ZF is read by the emitted code; mul and div leave it  *)
(* undefined.                                                              *)
(***************************************************************************)
\* The slots the stack of the process has room for.
MaxStack == 6

Registers == {"rax", "rbx", "rdx", "rdi", "rsi"}

\* x >= y as unsigned words
UGeq(x, y) == IF (x < 0) = (y < 0) THEN x >= y ELSE x < 0

\* mul: rdx:rax = rax * rbx, unsigned
MulLow(a, b) == a * b
MulHigh(a, b) ==
  CASE a >= 0 /\ b >= 0 -> 0
    [] a < 0 /\ b < 0 -> a + b
    [] a < 0 /\ b >= 0 -> IF b = 0 THEN 0 ELSE b - 1
    [] a >= 0 /\ b < 0 -> IF a = 0 THEN 0 ELSE a - 1

\* div: rdx:rax / divisor, unsigned; #DE when the divisor is zero or the
\* quotient does not fit in 64 bits (rdx >= divisor). A quotient that
\* fits but is not among the words kept here is "unrepresentable".
DivOutcome(st, q, r) == [st |-> st, q |-> q, r |-> r]
Div(high, low, divisor) ==
  IF divisor = 0 \/ UGeq(high, divisor) THEN DivOutcome("divide_error", 0, 0)
  ELSE IF high # 0 THEN DivOutcome("unrepresentable", 0, 0)
  ELSE IF low >= 0 /\ divisor > 0
    THEN DivOutcome("ok", low \div divisor, low % divisor)
  ELSE IF low >= 0 THEN DivOutcome("ok", 0, low)
  ELSE IF divisor > 0 THEN DivOutcome("unrepresentable", 0, 0)
  ELSE IF low >= divisor THEN DivOutcome("ok", 1, low - divisor)
  ELSE DivOutcome("ok", 0, low)

\* The line a label is defined on (the first, as the linker resolves it).
LabelLine(asm, name) ==
  CHOOSE k \in 1..Len(asm) :
    /\ asm[k] = LabelDef(name)
    /\ \A j \in 1..(k - 1) : asm[j] # LabelDef(name)

Fetching == runStatus = "running" /\ ip \in 1..Len(out_asm)
Line == out_asm[ip]

StepDirective ==
  /\ Fetching
  /\ Line.op \in {"global", "section", "label:"}
  /\ ip' = ip + 1
  /\ UNCHANGED <<regs, stack, zf, runStatus, exit_status, lexVars, parseVars, genVars, arenaVars>>

StepMovImm ==
  /\ Fetching
  /\ Line.op = "mov" /\ Line.a \in Registers /\ Line.b = ""
  /\ regs' = [regs EXCEPT ![Line.a] = Line.n]
  /\ ip' = ip + 1
  /\ UNCHANGED <<stack, zf, runStatus, exit_status, lexVars, parseVars, genVars, arenaVars>>

\* push reg, and push QWORD [rsp + n] of a slot pushed since _start; the
\* stack holds MaxStack slots
StepPush ==
  /\ Fetching
  /\ Line.op = "push"
  /\ Len(stack) < MaxStack
  /\ \/ /\ Line.a \in Registers
        /\ stack' = Append(stack, regs[Line.a])
     \/ /\ Line.a = "QWORD [rsp + ]"
        /\ Line.n >= 0 /\ Line.n \div 8 < Len(stack)
        /\ stack' = Append(stack, stack[Len(stack) - Line.n \div 8])
  /\ ip' = ip + 1
  /\ UNCHANGED <<regs, zf, runStatus, exit_status, lexVars, parseVars, genVars, arenaVars>>

StepPop ==
  /\ Fetching
  /\ Line.op = "pop" /\ Line.a \in Registers
  /\ stack # <<>>
  /\ regs' = [regs EXCEPT ![Line.a] = stack[Len(stack)]]
  /\ stack' = SubSeq(stack, 1, Len(stack) - 1)
  /\ ip' = ip + 1
  /\ UNCHANGED <<zf, runStatus, exit_status, lexVars, parseVars, genVars, arenaVars>>

StepAddSub ==
  /\ Fetching
  /\ Line.op \in {"add", "sub"} /\ Line.a = "rax" /\ Line.b = "rbx"
  /\ regs' = [regs EXCEPT !["rax"] = IF Line.op = "add" THEN @ + regs["rbx"]
                                                        ELSE @ - regs["rbx"]]
  /\ zf' = (regs'["rax"] = 0)
  /\ ip' = ip + 1
  /\ UNCHANGED <<stack, runStatus, exit_status, lexVars, parseVars, genVars, arenaVars>>

StepMul ==
  /\ Fetching
  /\ Line.op = "mul"
  /\ regs' = [regs EXCEPT !["rax"] = MulLow(regs["rax"], regs[Line.a]),
                          !["rdx"] = MulHigh(regs["rax"], regs[Line.a])]
  /\ zf' \in BOOLEAN
  /\ ip' = ip + 1
  /\ UNCHANGED <<stack, runStatus, exit_status, lexVars, parseVars, genVars, arenaVars>>

StepDiv ==
  /\ Fetching
  /\ Line.op = "div"
  /\ LET d == Div(regs["rdx"], regs["rax"], regs[Line.a]) IN
     IF d.st = "ok"
     THEN /\ regs' = [regs EXCEPT !["rax"] = d.q, !["rdx"] = d.r]
          /\ zf' \in BOOLEAN
          /\ ip' = ip + 1
          /\ UNCHANGED runStatus
     ELSE /\ runStatus' = d.st
          /\ UNCHANGED <<regs, ip, zf>>
  /\ UNCHANGED <<stack, exit_status, lexVars, parseVars, genVars, arenaVars>>

\* exit(rdi): the status of the process is the low byte of rdi.
StepSyscall ==
  /\ Fetching
  /\ Line.op = "syscall"
  /\ regs["rax"] = 60
  /\ runStatus' = "exited"
  /\ exit_status' = regs["rdi"] % 256
  /\ UNCHANGED <<regs, stack, ip, zf, lexVars, parseVars, genVars, arenaVars>>

\* cmp reg, imm: ZF is set when the two are equal.
StepCmp ==
  /\ Fetching
  /\ Line.op = "cmp" /\ Line.a \in Registers /\ Line.b = ""
  /\ zf' = (regs[Line.a] = Line.n)
  /\ ip' = ip + 1
  /\ UNCHANGED <<regs, stack, runStatus, exit_status, lexVars, parseVars, genVars, arenaVars>>

\* je label, or jz (taken when ZF is set) and jne label, or jnz (taken when
\* it is clear)
StepJcc ==
  /\ Fetching
  /\ Line.op \in {"je", "jne", "jz", "jnz"}
  /\ ip' = IF zf = (Line.op \in {"je", "jz"}) THEN LabelLine(out_asm, Line.a)
                                               ELSE ip + 1
  /\ UNCHANGED <<regs, stack, zf, runStatus, exit_status, lexVars, parseVars, genVars, arenaVars>>

StepJmp ==
  /\ Fetching
  /\ Line.op = "jmp"
  /\ ip' = LabelLine(out_asm, Line.a)
  /\ UNCHANGED <<regs, stack, zf, runStatus, exit_status, lexVars, parseVars, genVars, arenaVars>>

\* test reg, reg: ZF is set when the register is zero.
StepTest ==
  /\ Fetching
  /\ Line.op = "test" /\ Line.a \in Registers /\ Line.b = Line.a
  /\ zf' = (regs[Line.a] = 0)
  /\ ip' = ip + 1
  /\ UNCHANGED <<regs, stack, runStatus, exit_status, lexVars, parseVars, genVars, arenaVars>>

\* add rsp, n releases n / 8 of the slots pushed since _start; past them,
\* rsp is above the stack the program has built and the run is "astray".
\* rsp is not zero, so ZF is clear.
StepAddRsp ==
  /\ Fetching
  /\ Line.op = "add" /\ Line.a = "rsp" /\ Line.b = ""
  /\ IF Line.n >= 0 /\ Line.n \div 8 <= Len(stack)
     THEN /\ stack' = SubSeq(stack, 1, Len(stack) - Line.n \div 8)
          /\ ip' = ip + 1
          /\ UNCHANGED runStatus
     ELSE /\ runStatus' = "astray"
          /\ UNCHANGED <<stack, ip>>
  /\ zf' = FALSE
  /\ UNCHANGED <<regs, exit_status, lexVars, parseVars, genVars, arenaVars>>
(***************************************************************************)
(* The phases a behaviour does not run stay as they are before main.       *)
(***************************************************************************)
LexIdle ==
  /\ m_src = <<>>
  /\ m_index = 0
  /\ tokens = <<>>
  /\ lexStatus = "not_started"

GenIdle ==
  /\ m_prog = <<>>
  /\ m_output = <<>>
  /\ m_data_section = <<>>
  /\ m_stack_size = 0
  /\ m_vars = <<>>
  /\ m_scopes = <<>>
  /\ m_label_count = 0
  /\ string_label_count = 0
  /\ genStatus = "ok"
  /\ gen_pc = "not_started"
  /\ stmt_index = 1
  /\ generators = 0
  /\ out_asm = <<>>

ParseIdle ==
  /\ p_index = 0
  /\ nodes = <<>>
  /\ prog_stmts = <<>>
  /\ prog = <<>>
  /\ parseStatus = "not_started"

RunIdle ==
  /\ regs = [r \in Registers |-> 0]
  /\ stack = <<>>
  /\ ip = 1
  /\ zf = FALSE
  /\ runStatus = "not_started"
  /\ exit_status = 0

\* No arena yet.
ArenaIdle ==
  /\ m_size = 0
  /\ m_offset = 0
  /\ regions = <<>>

(***************************************************************************)
(* The source texts the tokenizer is run on                                *)
(***************************************************************************)
MaxPieces == 3
MaxWords == 2

\* Comment delimiters, operators and their prefixes, whitespace, one letter,
\* one digit, one character the language does not have.
CharPieces ==
  {<<"/","*">>,
   <<"*","/">>,
   <<"/","/">>,
   <<"/">>,
   <<"*">>,
   <<"=">>,
   <<"&">>,
   <<"|">>,
   <<" ">>,
   <<"\n">>,
   <<"a">>,
   <<"1">>,
   <<";">>,
   <<"#">>,
   <<"/","*","a","*","/">>,
   <<"/","/","a","\n">>}

\* The keywords of the language, words that start like a keyword, and string
\* literals: closed, unclosed, with a known and with an unknown escape.
WordPieces ==
  {<<"e","x","i","t">>,
   <<"l","e","t">>,
   <<"i","f">>,
   <<"e","l","s","e">>,
   <<"w","h","i","l","e">>,
   <<"f","o","r">>,
   <<"f","u","n","c","t","i","o","n">>,
   <<"r","e","t","u","r","n">>,
   <<"t","r","u","e">>,
   <<"f","a","l","s","e">>,
   <<"p","r","i","n","t">>,
   <<"l","e","t","t","e","r">>,
   <<"e","x","i","t","1">>,
   <<"p","r","i","n","t","x">>,
   <<"x">>,
   <<"\"","h","i","\\","n","\"">>,
   <<"\"","a","\"">>,
   <<"\"">>,
   <<"\\">>,
   <<";">>,
   <<" ">>,
   <<"1">>,
   <<"\"","a","\\","q","\"">>,
   <<"=">>,
   <<"/","/">>,
   <<"/","*">>,
   <<"&","&">>,
   <<"|","|">>,
   <<"#">>}

Sources(P, n) == {Flatten(ps) : ps \in SeqsUpTo(P, n)}
LexSources == Sources(CharPieces, MaxPieces) \cup Sources(WordPieces, MaxWords)

LexInit ==
  /\ m_src \in LexSources
  /\ m_index = 0
  /\ tokens = <<>>
  /\ lexStatus = "running"
  /\ ParseIdle
  /\ GenIdle
  /\ RunIdle
  /\ ArenaIdle

LexNext ==
  \/ IterComment
  \/ IterTwoChar
  \/ IterString
  \/ IterWordOrNumber
  \/ IterOther
  \/ TokenizeReturn

SpecLex == LexInit /\ [][LexNext]_vars


(***************************************************************************)
(* Code generation, one statement of gen_prog's loop at a time             *)
(***************************************************************************)
\* The generator as a record, and a record back into the generator.
Gen ==
  [m_output |-> m_output, m_data_section |-> m_data_section,
   m_stack_size |-> m_stack_size, m_vars |-> m_vars, m_scopes |-> m_scopes,
   m_label_count |-> m_label_count, string_label_count |-> string_label_count,
   status |-> genStatus]

SetGen(g) ==
  /\ m_output' = g.m_output
  /\ m_data_section' = g.m_data_section
  /\ m_stack_size' = g.m_stack_size
  /\ m_vars' = g.m_vars
  /\ m_scopes' = g.m_scopes
  /\ m_label_count' = g.m_label_count
  /\ string_label_count' = g.string_label_count
  /\ genStatus' = g.status

MaxStmts == 2

One == IntLit("1")
Two == IntLit("2")
LetA == StmtLet("a", One)

\* Every kind of expression; the calls with no, one and two arguments.
ExprPool ==
  { One, BoolLit(TRUE), Ident("x"), Paren(Two),
    Bin("add", One, Two), Bin("sub", Two, One), Bin("multi", One, Two),
    Bin("div", Two, One), Bin("eq", One, Two), Bin("and", One, Two),
    Bin("or", One, Two),
    Bin("add", Bin("multi", One, Two), Paren(Bin("sub", Two, Ident("x")))),
    FuncCall("f", <<>>), FuncCall("f", <<One>>), FuncCall("f", <<One, Two>>),
    Bin("add", FuncCall("f", <<Two, One>>), One) }

\* Every kind of statement; blocks with no, one and two lets of their own,
\* nested, and as the body of every statement that has one; a name let
\* again in its block, in an inner block and after its block; a let that
\* names itself; a let of a call without arguments; a function that
\* returns one of its parameters.
StmtPool ==
  { StmtLet("x", One),
    StmtLet("y", Ident("x")),
    StmtLet("z", FuncCall("f", <<One, Two>>)),
    StmtLet("w", Bin("or", One, Two)),
    StmtExit(Ident("x")),
    StmtExit(FuncCall("f", <<>>)),
    Scope(<<>>),
    Scope(<<LetA>>),
    Scope(<<LetA, StmtLet("b", Ident("a")), Scope(<<StmtLet("c", Ident("b"))>>),
            StmtExit(Ident("b"))>>),
    Scope(<<StmtLet("x", Two)>>),
    Scope(<<StmtLet("v", FuncCall("f", <<One>>)), StmtIf(Ident("v"), Scope(<<LetA>>))>>),
    StmtIf(Bin("and", One, Two), Scope(<<LetA>>)),
    StmtElse(Scope(<<LetA, Scope(<<>>)>>)),
    StmtElseIf(<<ElseIfLink(One, Scope(<<LetA>>)), ElseIfLink(Two, Scope(<<>>))>>),
    StmtWhile(Bin("eq", One, Two), Scope(<<LetA, StmtLet("b", One)>>)),
    StmtFor(One, Two, One, Scope(<<LetA>>)),
    StmtPrint(One),
    StmtReturn(Two),
    BoolLit(TRUE),
    StmtStringLit(<<"h", "i", "\n">>),
    FuncDef("f", <<"p", "q">>, Scope(<<LetA, StmtReturn(Ident("a"))>>)),
    FuncDef("label0", <<>>, Scope(<<>>)),
    LetA,
    Scope(<<LetA, LetA>>),
    Scope(<<LetA, Scope(<<LetA>>)>>),
    StmtLet("s", Ident("s")),
    StmtLet("v", FuncCall("f", <<>>)),
    FuncDef("g", <<"p", "q">>, Scope(<<StmtReturn(Ident("q"))>>)) }

Programs == SeqsUpTo(StmtPool, MaxStmts)

GenInit ==
  /\ LexIdle
  /\ ParseIdle
  /\ RunIdle
  /\ ArenaIdle
  /\ m_prog \in Programs
  /\ m_output = <<>>
  /\ m_data_section = <<>>
  /\ m_stack_size = 0
  /\ m_vars = <<>>
  /\ m_scopes = <<>>
  /\ m_label_count = 0
  /\ string_label_count = 0
  /\ genStatus = "ok"
  /\ gen_pc = "begin"
  /\ stmt_index = 1
  /\ generators = 1
  /\ out_asm = <<>>

\* gen_prog up to its loop
GenProgBegin ==
  /\ gen_pc = "begin"
  /\ SetGen(gen_prog_begin(Gen))
  /\ gen_pc' = "loop"
  /\ stmt_index' = 1
  /\ UNCHANGED <<m_prog, generators, out_asm, lexVars, parseVars, runVars, arenaVars>>

\* One iteration of the loop of gen_prog; a fatal error ends the process.
GenStmt ==
  /\ gen_pc = "loop"
  /\ stmt_index <= Len(m_prog)
  /\ LET g == gen_stmt(Gen, m_prog[stmt_index]) IN
     /\ SetGen(g)
     /\ gen_pc' = IF Ok(g) THEN "loop" ELSE "exited"
  /\ stmt_index' = stmt_index + 1
  /\ UNCHANGED <<m_prog, generators, out_asm, lexVars, parseVars, runVars, arenaVars>>

\* gen_prog after its loop; main writes what it returns to out.asm.
GenProgEnd ==
  /\ gen_pc = "loop"
  /\ stmt_index > Len(m_prog)
  /\ SetGen(gen_prog_end(Gen))
  /\ gen_pc' = "returned"
  /\ out_asm' = IF generators = 1 THEN gen_prog_end(Gen).m_output ELSE out_asm
  /\ UNCHANGED <<m_prog, stmt_index, generators, lexVars, parseVars, runVars, arenaVars>>

\* The process builds a second Generator for the same program: its fields
\* are new, the static counter of make_string_label is the process's.
SecondGenerator ==
  /\ gen_pc = "returned"
  /\ generators = 1
  /\ SetGen(NewGenerator(string_label_count))
  /\ gen_pc' = "begin"
  /\ stmt_index' = 1
  /\ generators' = 2
  /\ UNCHANGED <<m_prog, out_asm, lexVars, parseVars, runVars, arenaVars>>

GenNext ==
  \/ GenProgBegin
  \/ GenStmt
  \/ GenProgEnd
  \/ SecondGenerator

SpecGen == GenInit /\ [][GenNext]_vars

(***************************************************************************)
(* main: compile a source text, then run the program                       *)
(***************************************************************************)
\* Tokenizer::tokenize from index i on, with the tokens so far.
RECURSIVE tokenize(_, _)
tokenize(i, toks) ==
  IF PeekAt(i, 0) = NoChar THEN Lexed(0, toks, "done")
  ELSE LET r == LoopBody(i, toks) IN
       IF r.st = "running" THEN tokenize(r.idx, r.toks) ELSE r

gen_prog(g, stmts) == gen_prog_end(gen_stmts(gen_prog_begin(g), stmts, 1))

\* Arithmetic expressions as written: operands 0..MaxLiteral, one or two of
\* the operators + - * /, grouped to the left or to the right.
Operators == {"+", "-", "*", "/"}
Num(n) == [op |-> "num", n |-> n]
Op(o, l, r) == [op |-> o, l |-> l, r |-> r]
Operands == {Num(n) : n \in 0..MaxLiteral}
Simple == {Op(o, l, r) : o \in Operators, l \in Operands, r \in Operands}
Arithmetic ==
  Operands \cup Simple
    \cup {Op(o, l, r) : o \in Operators, l \in Simple, r \in Operands}
    \cup {Op(o, l, r) : o \in Operators, l \in Operands, r \in Simple}

\* Its text: parentheses where the usual precedence and left associativity
\* would group otherwise.
Prec(o) == IF o \in {"+", "-"} THEN 0 ELSE 1
RECURSIVE Text(_, _)
Text(e, min_prec) ==
  IF e.op = "num" THEN <<ToString(e.n)>>
  ELSE LET inner == Text(e.l, Prec(e.op)) \o <<" ", e.op, " ">>
                      \o Text(e.r, Prec(e.op) + 1)
       IN IF Prec(e.op) < min_prec THEN <<"(">> \o inner \o <<")">> ELSE inner

\* let x = E; exit(x);
LetExit(e) ==
  <<"l", "e", "t", " ", "x", " ", "=", " ">> \o Text(e, 0)
    \o <<";", " ", "e", "x", "i", "t", "(", "x", ")", ";">>

RunInit ==
  /\ m_src \in {LetExit(e) : e \in Arithmetic}
  /\ m_index = 0
  /\ tokens = <<>>
  /\ lexStatus = "not_started"
  /\ ParseIdle
  /\ GenIdle
  /\ RunIdle
  /\ ArenaIdle

\* main once the three passes have run: the tokens, the tree and the assembly
\* text are kept, and the linked program is started at _start.
Built(lexed, parsed) == lexed.st = "done" /\ parsed.st = "ok"

Link(lexed, parsed, g) ==
  /\ lexStatus' = lexed.st
  /\ tokens' = lexed.toks
  /\ m_index' = lexed.idx
  /\ p_index' = IF lexed.st = "done" THEN parsed.i ELSE 0
  /\ prog' = IF lexed.st = "done" THEN parsed.node ELSE <<>>
  /\ parseStatus' = IF lexed.st = "done" THEN parsed.st ELSE "not_started"
  /\ m_prog' = IF Built(lexed, parsed) THEN parsed.node ELSE <<>>
  /\ SetGen(g)
  /\ gen_pc' = IF Ok(g) THEN "returned" ELSE "exited"
  /\ stmt_index' = Len(m_prog') + 1
  /\ generators' = 1
  /\ out_asm' = IF Ok(g) THEN g.m_output ELSE <<>>
  /\ runStatus' = IF Ok(g) THEN "running" ELSE "not_started"
  /\ ip' = IF Ok(g) THEN LabelLine(g.m_output, "_start") ELSE 1

Generate(lexed, parsed) ==
  Link(lexed, parsed,
       IF Built(lexed, parsed) THEN gen_prog(NewGenerator(0), parsed.node)
       ELSE Fatal(NewGenerator(0), IF lexed.st = "done" THEN parsed.st ELSE lexed.st))

Parse(lexed) == Generate(lexed, parse_prog(lexed.toks))

\* main: tokenize, parse_prog, gen_prog, out.asm, assemble, link. The
\* program is kept as prog; its nodes in the arena are not followed here.
Main ==
  /\ lexStatus = "not_started"
  /\ Parse(tokenize(0, <<>>))
  /\ UNCHANGED <<m_src, nodes, prog_stmts, regs, stack, zf, exit_status, arenaVars>>

RunNext ==
  \/ Main
  \/ StepDirective
  \/ StepMovImm
  \/ StepPush
  \/ StepPop
  \/ StepAddSub
  \/ StepMul
  \/ StepDiv
  \/ StepSyscall

SpecRun == RunInit /\ [][RunNext]_vars

(***************************************************************************)
(* main, one pass at a time: tokenize, the loop of parse_prog, gen_prog    *)
(***************************************************************************)
MaxChunks == 2

\* Statements as written, one of every form the grammar names and of the
\* forms the parser is to reject.
\* let x = 1;
LetX ==
  <<"l", "e", "t", " ", "x", " ", "=", " ", "1", ";">>
\* if (x == 1) { exit(7); }
IfXEq ==
  <<"i", "f", " ", "(", "x", " ", "=", "=", " ", "1", ")", " ", "{", " ",
    "e", "x", "i", "t", "(", "7", ")", ";", " ", "}">>
\* exit(0);
ExitZero ==
  <<"e", "x", "i", "t", "(", "0", ")", ";">>
\* exit(x);
ExitX ==
  <<"e", "x", "i", "t", "(", "x", ")", ";">>
\* exit(1 + 2 * 3);
ExitSum ==
  <<"e", "x", "i", "t", "(", "1", " ", "+", " ", "2", " ", "*", " ", "3",
    ")", ";">>
\* exit(3 - 2 - 1 + 2);
ExitChain ==
  <<"e", "x", "i", "t", "(", "3", " ", "-", " ", "2", " ", "-", " ", "1",
    " ", "+", " ", "2", ")", ";">>
\* exit(f(1, 2));
ExitCall ==
  <<"e", "x", "i", "t", "(", "f", "(", "1", ",", " ", "2", ")", ")", ";">>
\* exit(f(1) + 2);
ExitCallSum ==
  <<"e", "x", "i", "t", "(", "f", "(", "1", ")", " ", "+", " ", "2", ")",
    ";">>
\* { let x = 1;
OpenBlock ==
  <<"{", " ", "l", "e", "t", " ", "x", " ", "=", " ", "1", ";">>
\* for (
ForOpen ==
  <<"f", "o", "r", " ", "(">>
\* else if 1 { }
ElseIfOne ==
  <<"e", "l", "s", "e", " ", "i", "f", " ", "1", " ", "{", " ", "}">>
\* else if 0 { }
ElseIfZero ==
  <<"e", "l", "s", "e", " ", "i", "f", " ", "0", " ", "{", " ", "}">>
\* else { }
ElseBlock ==
  <<"e", "l", "s", "e", " ", "{", " ", "}">>
\* function f(a, b) { return a; }
FunctionF ==
  <<"f", "u", "n", "c", "t", "i", "o", "n", " ", "f", "(", "a", ",", " ",
    "b", ")", " ", "{", " ", "r", "e", "t", "u", "r", "n", " ", "a", ";",
    " ", "}">>
\* return 1;
ReturnOne ==
  <<"r", "e", "t", "u", "r", "n", " ", "1", ";">>
\* { return 1; }
BlockReturn ==
  <<"{", " ", "r", "e", "t", "u", "r", "n", " ", "1", ";", " ", "}">>
\* i = 1;
AssignI ==
  <<"i", " ", "=", " ", "1", ";">>
\* { i = 1; }
BlockAssign ==
  <<"{", " ", "i", " ", "=", " ", "1", ";", " ", "}">>
\* if (1) { let i = 0; i = 1; }
IfAssign ==
  <<"i", "f", " ", "(", "1", ")", " ", "{", " ", "l", "e", "t", " ", "i",
    " ", "=", " ", "0", ";", " ", "i", " ", "=", " ", "1", ";", " ", "}">>
\* exit();
ExitNothing ==
  <<"e", "x", "i", "t", "(", ")", ";">>
\* let z = ;
LetNothing ==
  <<"l", "e", "t", " ", "z", " ", "=", " ", ";">>
\* for (;;) { }
ForNothing ==
  <<"f", "o", "r", " ", "(", ";", ";", ")", " ", "{", " ", "}">>
\* for (1; 0; 1) { }
ForOnes ==
  <<"f", "o", "r", " ", "(", "1", ";", " ", "0", ";", " ", "1", ")", " ",
    "{", " ", "}">>
\* while 0 { let a = 2; }
WhileZero ==
  <<"w", "h", "i", "l", "e", " ", "0", " ", "{", " ", "l", "e", "t", " ",
    "a", " ", "=", " ", "2", ";", " ", "}">>
\* if (1) { let a = (1 + 2) * 3; { } }
IfOne ==
  <<"i", "f", " ", "(", "1", ")", " ", "{", " ", "l", "e", "t", " ", "a",
    " ", "=", " ", "(", "1", " ", "+", " ", "2", ")", " ", "*", " ", "3",
    ";", " ", "{", " ", "}", " ", "}">>
\* print 1;
PrintOne ==
  <<"p", "r", "i", "n", "t", " ", "1", ";">>
\* true
BareTrue ==
  <<"t", "r", "u", "e">>
\* "hi"
BareString ==
  <<"\"", "h", "i", "\"">>

StatementTexts ==
  {LetX, IfXEq, ExitZero, ExitX, ExitSum, ExitChain,
   ExitCall, ExitCallSum, OpenBlock, ForOpen, ElseIfOne, ElseIfZero,
   ElseBlock, FunctionF, ReturnOne, BlockReturn, AssignI, BlockAssign,
   IfAssign, ExitNothing, LetNothing, ForNothing, ForOnes, WhileZero,
   IfOne, PrintOne, BareTrue, BareString}

\* Whole programs.
\* let x = 2 + 3 * 4; exit(x);
Test2 ==
  <<"l", "e", "t", " ", "x", " ", "=", " ", "2", " ", "+", " ", "3", " ",
    "*", " ", "4", ";", " ", "e", "x", "i", "t", "(", "x", ")", ";">>
\* let x = (10 - 2 * 3) / 2; exit(x);
Test3 ==
  <<"l", "e", "t", " ", "x", " ", "=", " ", "(", "1", "0", " ", "-", " ",
    "2", " ", "*", " ", "3", ")", " ", "/", " ", "2", ";", " ", "e", "x",
    "i", "t", "(", "x", ")", ";">>
\* let x = 1; if (x == 1) { exit(7); } exit(0);
Test4 ==
  <<"l", "e", "t", " ", "x", " ", "=", " ", "1", ";", " ", "i", "f", " ",
    "(", "x", " ", "=", "=", " ", "1", ")", " ", "{", " ", "e", "x", "i",
    "t", "(", "7", ")", ";", " ", "}", " ", "e", "x", "i", "t", "(", "0",
    ")", ";">>
\* exit(0 || 1 && 2 == 2 + 1 * 2);
TestPrecedence ==
  <<"e", "x", "i", "t", "(", "0", " ", "|", "|", " ", "1", " ", "&", "&",
    " ", "2", " ", "=", "=", " ", "2", " ", "+", " ", "1", " ", "*", " ",
    "2", ")", ";">>
\* print "hi\n"; exit(0);
Test6 ==
  <<"p", "r", "i", "n", "t", " ", "\"", "h", "i", "\\", "n", "\"", ";",
    " ", "e", "x", "i", "t", "(", "0", ")", ";">>

\* The statements of ps, a space between two.
RECURSIVE Spaced(_)
Spaced(ps) ==
  IF Len(ps) <= 1 THEN Flatten(ps) ELSE Head(ps) \o <<" ">> \o Spaced(Tail(ps))

ProgramTexts ==
  {Test2, Test3, Test4, TestPrecedence, Test6} \cup {Spaced(ps) : ps \in SeqsUpTo(StatementTexts, MaxChunks)}

ParseInit ==
  /\ m_src \in ProgramTexts
  /\ m_index = 0
  /\ tokens = <<>>
  /\ lexStatus = "not_started"
  /\ ParseIdle
  /\ GenIdle
  /\ RunIdle
  /\ ArenaIdle

\* Tokenizer::tokenize, then the Parser is built and parse_prog begins.
Tokenized(lexed) ==
  /\ tokens' = lexed.toks
  /\ m_index' = lexed.idx
  /\ lexStatus' = lexed.st
  /\ parseStatus' = IF lexed.st = "done" THEN "loop" ELSE "not_started"

Tokenize ==
  /\ lexStatus = "not_started"
  /\ Tokenized(tokenize(0, <<>>))
  /\ UNCHANGED <<m_src, p_index, prog, nodes, prog_stmts, genVars, runVars, arenaVars>>

\* One iteration of the loop of parse_prog: the statement is kept, or the
\* process ends with "Invalid statement" or with the error of parse_stmt.
TakeStmtQuietly(stmt) ==
  /\ p_index' = stmt.i
  /\ prog' = IF stmt.st = "ok" THEN Append(prog, stmt.node) ELSE prog
  /\ parseStatus' = CASE stmt.st = "ok" -> "loop"
                      [] stmt.st = "none" -> "ok"
                      [] OTHER -> stmt.st

TakeStmt(stmt) ==
  /\ p_index' = stmt.i
  /\ prog' = IF stmt.st = "ok" THEN Append(prog, stmt.node) ELSE prog
  /\ parseStatus' = CASE stmt.st = "ok" -> "loop"
                      [] stmt.st = "none" -> "invalid_statement"
                      [] OTHER -> stmt.st

\* The same iteration in the arena: the nodes parse_stmt has allocated, and
\* the pointer it returns pushed onto prog.stmts.
TakeNodes(h) ==
  /\ nodes' = h.nodes
  /\ prog_stmts' = IF h.st = "ok" THEN Append(prog_stmts, h.ret) ELSE prog_stmts

ParseStmt ==
  /\ parseStatus = "loop"
  /\ TypeAt(tokens, p_index, 0) # "none"
  /\ TakeStmt(Parser("parse_stmt", tokens, p_index, <<>>))
  /\ TakeNodes(HeapParser("parse_stmt", tokens, Heap("ok", nodes, p_index, 0), <<>>))
  /\ UNCHANGED <<lexVars, genVars, runVars, arenaVars>>

\* parse_prog returns prog.
ParseReturn ==
  /\ parseStatus = "loop"
  /\ TypeAt(tokens, p_index, 0) = "none"
  /\ parseStatus' = "ok"
  /\ UNCHANGED <<p_index, prog, nodes, prog_stmts, lexVars, genVars, runVars, arenaVars>>

\* A Generator for prog, gen_prog written to out.asm, nasm and ld; the
\* program is then started at _start.
Assembled(g) ==
  /\ m_prog' = prog
  /\ SetGen(g)
  /\ gen_pc' = IF Ok(g) THEN "returned" ELSE "exited"
  /\ stmt_index' = Len(prog) + 1
  /\ generators' = 1
  /\ out_asm' = IF Ok(g) THEN g.m_output ELSE <<>>
  /\ runStatus' = IF Ok(g) THEN "running" ELSE "not_started"
  /\ ip' = IF Ok(g) THEN LabelLine(g.m_output, "_start") ELSE 1

GenerateAsm ==
  /\ parseStatus = "ok"
  /\ gen_pc = "not_started"
  /\ Assembled(gen_prog(NewGenerator(0), prog))
  /\ UNCHANGED <<lexVars, parseVars, regs, stack, zf, exit_status, arenaVars>>

ParseNext ==
  \/ Tokenize
  \/ ParseStmt
  \/ ParseReturn
  \/ GenerateAsm

SpecParse == ParseInit /\ [][ParseNext]_vars

(***************************************************************************)
(* The lowering of && and ||, generated and run                            *)
(*                                                                         *)
(* No source text reaches the two visitors (parse_expr stops at && and     *)
(* ||), so the programs are given as the Generator gets them, as trees.    *)
(* The right operand of every && and || holds a literal that occurs        *)
(* nowhere else, 3 or, one level down, 4: the processor is in the code of  *)
(* that operand when it loads the literal.                                 *)
(***************************************************************************)
Three == IntLit("3")
Four == IntLit("4")
Nought == Bin("sub", Three, Three)

LeftOperands ==
  {IntLit("0"), One, Two, Bin("sub", One, One), Bin("and", One, Two),
   Bin("or", IntLit("0"), IntLit("0"))}

RightOperands ==
  {Three, Nought, Bin("and", Three, Four), Bin("and", Nought, Four),
   Bin("or", Three, Four), Bin("or", Nought, Four),
   Bin("or", Nought, Bin("sub", Four, Four))}

Logic ==
  {Bin(op, a, b) : op \in {"and", "or"}, a \in LeftOperands, b \in RightOperands}

\* exit(E); and let x = E; exit(x);
ShortPrograms ==
  {<<StmtExit(e)>> : e \in Logic}
    \cup {<<StmtLet("x", e), StmtExit(Ident("x"))>> : e \in Logic}

ShortInit ==
  /\ LexIdle
  /\ ParseIdle
  /\ RunIdle
  /\ ArenaIdle
  /\ m_prog \in ShortPrograms
  /\ m_output = <<>>
  /\ m_data_section = <<>>
  /\ m_stack_size = 0
  /\ m_vars = <<>>
  /\ m_scopes = <<>>
  /\ m_label_count = 0
  /\ string_label_count = 0
  /\ genStatus = "ok"
  /\ gen_pc = "begin"
  /\ stmt_index = 1
  /\ generators = 1
  /\ out_asm = <<>>

\* out.asm is assembled and linked, and the program is started at _start.
Start ==
  /\ gen_pc = "returned"
  /\ runStatus = "not_started"
  /\ runStatus' = "running"
  /\ ip' = LabelLine(out_asm, "_start")
  /\ UNCHANGED <<regs, stack, zf, exit_status, lexVars, parseVars, genVars, arenaVars>>

ShortNext ==
  \/ GenProgBegin
  \/ GenStmt
  \/ GenProgEnd
  \/ Start
  \/ StepDirective
  \/ StepMovImm
  \/ StepPush
  \/ StepPop
  \/ StepAddSub
  \/ StepCmp
  \/ StepJcc
  \/ StepJmp
  \/ StepSyscall

SpecShort == ShortInit /\ [][ShortNext]_vars

(***************************************************************************)
(* ArenaAllocator: a buffer of m_size bytes and the bump pointer m_offset, *)
(* kept as its distance from m_buffer. regions are the blocks alloc has    *)
(* returned: where each starts and sizeof(T).                              *)
(***************************************************************************)
MaxAllocs == 4

\* Capacities given to the constructor, and sizes of the types allocated.
Capacities == {16, 32, 48}
Sizes == {8, 16, 24}

\* ArenaAllocator(bytes)
ArenaInit ==
  /\ LexIdle
  /\ ParseIdle
  /\ GenIdle
  /\ RunIdle
  /\ m_size \in Capacities
  /\ m_offset = 0
  /\ regions = <<>>

\* alloc<T>(): the old m_offset is returned, m_offset moves on by sizeof(T).
alloc(size) ==
  /\ regions' = Append(regions, [start |-> m_offset, size |-> size])
  /\ m_offset' = m_offset + size
  /\ UNCHANGED m_size

Alloc ==
  /\ Len(regions) < MaxAllocs
  /\ \E size \in Sizes : alloc(size)
  /\ UNCHANGED <<lexVars, parseVars, genVars, runVars>>

ArenaNext == Alloc

SpecArena == ArenaInit /\ [][ArenaNext]_vars

(***************************************************************************)
(* Statements with blocks, loops and chains, generated and run             *)
(*                                                                         *)
(* The programs are given as the Generator gets them. A condition is the   *)
(* literal 1k (not zero) or 1k - 1k (zero) for the k-th link of a chain,   *)
(* and the body of the k-th link lets a variable be the literal 2k: the    *)
(* processor is in the code of a condition or of a body when it loads its  *)
(* literal.                                                                *)
(***************************************************************************)
MaxLinks == 3

Lit(n) == IntLit(ToString(n))
Holds(k) == Lit(10 + k)
Fails(k) == Bin("sub", Lit(10 + k), Lit(10 + k))
Body(k) == Scope(<<StmtLet("a", Lit(20 + k))>>)

\* The chains of n links, each condition zero or not.
Chains(n) ==
  {StmtElseIf([k \in 1..n |-> ElseIfLink(IF k \in T THEN Holds(k) ELSE Fails(k), Body(k))])
     : T \in SUBSET (1..n)}

\* let x = 2; S exit(x); for a chain, a block, an if, a while and a for that
\* is left at once, and a for that is never left.
ExecPrograms ==
  {<<StmtLet("x", Two), s, StmtExit(Ident("x"))>> :
     s \in UNION {Chains(n) : n \in 1..MaxLinks}
             \cup {Scope(<<LetA, StmtLet("b", Ident("x"))>>),
                   StmtIf(One, Scope(<<LetA>>)),
                   StmtIf(Lit(0), Scope(<<LetA>>)),
                   StmtWhile(Lit(0), Scope(<<LetA>>)),
                   StmtFor(One, Lit(0), One, Scope(<<>>)),
                   StmtFor(One, One, One, Scope(<<>>))}}

ExecInit ==
  /\ LexIdle
  /\ ParseIdle
  /\ RunIdle
  /\ ArenaIdle
  /\ m_prog \in ExecPrograms
  /\ m_output = <<>>
  /\ m_data_section = <<>>
  /\ m_stack_size = 0
  /\ m_vars = <<>>
  /\ m_scopes = <<>>
  /\ m_label_count = 0
  /\ string_label_count = 0
  /\ genStatus = "ok"
  /\ gen_pc = "begin"
  /\ stmt_index = 1
  /\ generators = 1
  /\ out_asm = <<>>

ExecNext ==
  \/ GenProgBegin
  \/ GenStmt
  \/ GenProgEnd
  \/ Start
  \/ StepDirective
  \/ StepMovImm
  \/ StepPush
  \/ StepPop
  \/ StepAddSub
  \/ StepAddRsp
  \/ StepCmp
  \/ StepTest
  \/ StepJcc
  \/ StepJmp
  \/ StepSyscall

SpecExec == ExecInit /\ [][ExecNext]_vars
(***************************************************************************)
(* The lexical grammar as the specification words it (section 4.2), read   *)
(* off the source text alone; the claims about the tokenizer are stated    *)
(* against it.                                                             *)
(***************************************************************************)
Punctuation == {"(", ")", "{", "}", ";", ",", "=", "+", "-", "*", "/"}
KnownEscapes == {"n", "t", "\"", "\\"}

StartsWith(s, a, b) == Len(s) >= 2 /\ s[1] = a /\ s[2] = b
Drop(s, n) == SubSeq(s, n + 1, Len(s))

RECURSIVE AfterLine(_)
AfterLine(s) == IF s = <<>> \/ Head(s) = "\n" THEN s ELSE AfterLine(Tail(s))

RECURSIVE AfterBlock(_)
AfterBlock(s) ==
  IF s = <<>> THEN s
  ELSE IF StartsWith(s, "*", "/") THEN Drop(s, 2)
  ELSE AfterBlock(Tail(s))

\* A string literal's body (the text after the opening quote): whether it is
\* closed with known escapes only, its decoded payload, and the text after it.
RECURSIVE StringBody(_, _)
StringBody(s, payload) ==
  IF s = <<>> THEN [ok |-> FALSE, payload |-> payload, rest |-> s]
  ELSE IF Head(s) = "\"" THEN [ok |-> TRUE, payload |-> payload, rest |-> Tail(s)]
  ELSE IF Head(s) = "\\" THEN
    IF Len(s) >= 2 /\ s[2] \in KnownEscapes
    THEN StringBody(Drop(s, 2),
                    payload \o (CASE s[2] = "n" -> "\n" [] s[2] = "t" -> "\t"
                                  [] OTHER -> s[2]))
    ELSE [ok |-> FALSE, payload |-> payload, rest |-> s]
  ELSE StringBody(Tail(s), payload \o Head(s))

\* No unrecognised character, no unterminated string literal, no unknown
\* escape. A block comment may run to the end of the input.
RECURSIVE LexicallyLegal(_)
LexicallyLegal(s) ==
  IF s = <<>> THEN TRUE
  ELSE IF StartsWith(s, "/", "/") THEN LexicallyLegal(AfterLine(Drop(s, 2)))
  ELSE IF StartsWith(s, "/", "*") THEN LexicallyLegal(AfterBlock(Drop(s, 2)))
  ELSE IF StartsWith(s, "=", "=") \/ StartsWith(s, "&", "&") \/ StartsWith(s, "|", "|")
    THEN LexicallyLegal(Drop(s, 2))
  ELSE IF Head(s) = "\""
    THEN LET b == StringBody(Tail(s), "") IN b.ok /\ LexicallyLegal(b.rest)
  ELSE IF Head(s) \in Letters \cup Digits \cup Punctuation \cup Spaces
    THEN LexicallyLegal(Tail(s))
  ELSE FALSE

\* The source text without its whitespace and comments.
RECURSIVE Stripped(_)
Stripped(s) ==
  IF s = <<>> THEN ""
  ELSE IF StartsWith(s, "/", "/") THEN Stripped(AfterLine(Drop(s, 2)))
  ELSE IF StartsWith(s, "/", "*") THEN Stripped(AfterBlock(Drop(s, 2)))
  ELSE IF Head(s) \in Spaces THEN Stripped(Tail(s))
  ELSE Head(s) \o Stripped(Tail(s))

\* How a token is spelled in the source.
Spelling(t) ==
  CASE t.type \in {"ident", "int_lit"} -> t.value[1]
    [] t.type = "exit" -> "exit"
    [] t.type = "let" -> "let"
    [] t.type = "if_" -> "if"
    [] t.type = "else_" -> "else"
    [] t.type = "else_if" -> "else if"
    [] t.type = "while_" -> "while"
    [] t.type = "for_" -> "for"
    [] t.type = "function" -> "function"
    [] t.type = "return_" -> "return"
    [] t.type = "true_" -> "true"
    [] t.type = "false_" -> "false"
    [] t.type = "print" -> "print"
    [] t.type = "eq_eq" -> "=="
    [] t.type = "and_and" -> "&&"
    [] t.type = "or_or" -> "||"
    [] t.type = "open_paren" -> "("
    [] t.type = "close_paren" -> ")"
    [] t.type = "semi" -> ";"
    [] t.type = "eq" -> "="
    [] t.type = "plus" -> "+"
    [] t.type = "star" -> "*"
    [] t.type = "minus" -> "-"
    [] t.type = "fslash" -> "/"
    [] t.type = "open_curly" -> "{"
    [] t.type = "close_curly" -> "}"
    [] t.type = "comma" -> ","

Spellings(toks) == Join([k \in 1..Len(toks) |-> Spelling(toks[k])])

Range(s) == {s[k] : k \in 1..Len(s)}
LexEnded == lexStatus # "running"
LexFailed == lexStatus \notin {"running", "done"}

\* The keyword set of the specification, and the token each word gets.
Keywords == {"exit", "let", "if", "else", "while", "for", "function", "return",
             "true", "false", "print"}
KeywordToken(w) ==
  Tok(CASE w = "if" -> "if_" [] w = "else" -> "else_" [] w = "while" -> "while_"
        [] w = "for" -> "for_" [] w = "return" -> "return_" [] w = "true" -> "true_"
        [] w = "false" -> "false_" [] OTHER -> w)
IsWord(s) == s # <<>> /\ Head(s) \in Letters /\ Range(s) \subseteq Letters \cup Digits

(***************************************************************************)
(* C7: tokenize fails only when the input holds an unrecognised character, *)
(* an unterminated string literal or an unknown escape; on every other     *)
(* input, one that ends in `=` or inside a block comment included, it      *)
(* returns a token list.                                                   *)
(***************************************************************************)
C7_FailsOnlyOnLexicalErrors ==
  (LexEnded /\ LexicallyLegal(m_src)) => lexStatus = "done"

(***************************************************************************)
(* C8: on a string-literal-free input on which tokenize succeeds, the      *)
(* spellings of the tokens, concatenated in emitted order, are the source  *)
(* with its whitespace, line comments and block comments removed.          *)
(***************************************************************************)
C8_SpellingsAreStrippedSource ==
  (lexStatus = "done" /\ "\"" \notin Range(m_src))
    => Spellings(tokens) = Stripped(m_src)

\* tokenize has returned two tokens or more for a source that holds a comment
\* and whitespace.
C8_Witness ==
  /\ lexStatus = "done"
  /\ "\"" \notin Range(m_src)
  /\ Len(tokens) >= 2
  /\ \E k \in 1..(Len(m_src) - 1) : m_src[k] = "/" /\ m_src[k + 1] \in {"/", "*"}
  /\ Range(m_src) \cap Spaces # {}
  /\ Stripped(m_src) # Join(m_src)

(***************************************************************************)
(* C9: a source that starts with a closed string literal using only the    *)
(* escapes \n \t \" \\ gives one string_lit token holding the decoded      *)
(* payload, and scanning resumes after the closing quote: `"hi\n";` gives  *)
(* string_lit("hi<newline>") and semi.                                     *)
(***************************************************************************)
HiSource == <<"\"", "h", "i", "\\", "n", "\"", ";">>

C9_StringLiteralToken ==
  (LexEnded /\ m_src # <<>> /\ Head(m_src) = "\"" /\ LexicallyLegal(m_src))
    => /\ lexStatus = "done"
       /\ tokens # <<>>
       /\ tokens[1] = TokV("string_lit", StringBody(Tail(m_src), "").payload)
       /\ (m_src = HiSource => tokens = <<TokV("string_lit", "hi\n"), Tok("semi")>>)

(***************************************************************************)
(* C10: a source that is one of the eleven keywords gives the keyword's    *)
(* token, carrying no value; any other run of a letter followed by         *)
(* alphanumerics gives one ident token whose value is the whole run.       *)
(***************************************************************************)
C10_KeywordOrIdent ==
  (LexEnded /\ IsWord(m_src))
    => /\ lexStatus = "done"
       /\ tokens = << IF Join(m_src) \in Keywords THEN KeywordToken(Join(m_src))
                      ELSE TokV("ident", Join(m_src)) >>


(***************************************************************************)
(* The lowering's contracts                                                *)
(***************************************************************************)
\* C2: gen_expr returns with stack_depth exactly one greater than on entry,
\* for every expression: literals, identifiers, parentheses, the seven binary
\* operators and calls with any number of arguments.
C2_ExprPushesOne ==
  gen_pc = "loop" =>
    \A e \in ExprPool :
      Ok(gen_expr(Gen, e)) => gen_expr(Gen, e).m_stack_size = m_stack_size + 1

\* C3: gen_stmt returns with stack_depth as it was on entry, and a let with
\* stack_depth one higher, for every kind of statement.
C3_StmtKeepsDepth ==
  [][(gen_pc = "loop" /\ stmt_index' = stmt_index + 1 /\ genStatus' = "ok")
       => m_stack_size' = m_stack_size
                            + (IF m_prog[stmt_index].kind = "let" THEN 1 ELSE 0)]_vars

\* What the lowering of a tree is to release, in the order of its emission:
\* 8 bytes per let of a block's own statements where the block ends, and the
\* arguments of a call after the call.
RECURSIVE ExprAdds(_)
RECURSIVE ArgsAdds(_, _)
RECURSIVE StmtAdds(_)
RECURSIVE StmtsAdds(_, _)
RECURSIVE LinksAdds(_, _)

NumLets(stmts) == Cardinality({k \in 1..Len(stmts) : stmts[k].kind = "let"})

ScopeAdds(scope) == StmtsAdds(scope.stmts, 1) \o <<8 * NumLets(scope.stmts)>>

ExprAdds(e) ==
  CASE e.kind \in {"add", "sub", "multi", "div", "eq"} ->
         ExprAdds(e.rhs) \o ExprAdds(e.lhs)
    [] e.kind \in {"and", "or"} -> ExprAdds(e.lhs) \o ExprAdds(e.rhs)
    [] e.kind = "paren" -> ExprAdds(e.expr)
    [] e.kind = "func_call" ->
         ArgsAdds(e.args, Len(e.args))
           \o (IF e.args = <<>> THEN <<>> ELSE <<8 * Len(e.args)>>)
    [] OTHER -> <<>>

ArgsAdds(args, k) ==
  IF k = 0 THEN <<>> ELSE ExprAdds(args[k]) \o ArgsAdds(args, k - 1)

StmtAdds(s) ==
  CASE s.kind \in {"exit", "let", "return", "print"} -> ExprAdds(s.expr)
    [] s.kind = "scope" -> ScopeAdds(s)
    [] s.kind = "else" -> ScopeAdds(s.scope)
    [] s.kind = "func_def" -> ScopeAdds(s.body)
    [] s.kind \in {"if", "while"} -> ExprAdds(s.expr) \o ScopeAdds(s.scope)
    [] s.kind = "else_if" -> LinksAdds(s.links, 1)
    [] s.kind = "for" ->
         ExprAdds(s.init) \o ExprAdds(s.condition) \o ScopeAdds(s.scope)
           \o ExprAdds(s.iteration)
    [] OTHER -> <<>>

StmtsAdds(stmts, k) ==
  IF k > Len(stmts) THEN <<>> ELSE StmtAdds(stmts[k]) \o StmtsAdds(stmts, k + 1)

LinksAdds(links, k) ==
  IF k > Len(links) THEN <<>>
  ELSE ExprAdds(links[k].expr) \o ScopeAdds(links[k].scope)
         \o LinksAdds(links, k + 1)

\* The operands of the add rsp lines among lines.
IsAddRsp(line) == line.op = "add" /\ line.a = "rsp"
AddRspOperands(lines) ==
  [k \in 1..Len(SelectSeq(lines, IsAddRsp)) |-> SelectSeq(lines, IsAddRsp)[k].n]

\* The lines a step appended to the output.
Emitted == SubSeq(m_output', Len(m_output) + 1, Len(m_output'))

\* C4: each block lowered gets exactly one add rsp, 8*k, after the code of its
\* last statement, k the number of lets among the block's own statements
\* (nested blocks release their own); vars and the scopes stack are on return
\* as they were at the entry to the block.
C4_ScopeClosure ==
  [][(gen_pc = "loop" /\ stmt_index' = stmt_index + 1 /\ genStatus' = "ok")
       => /\ AddRspOperands(Emitted) = StmtAdds(m_prog[stmt_index])
          /\ m_scopes' = m_scopes
          /\ m_prog[stmt_index].kind # "let" => m_vars' = m_vars
          /\ m_prog[stmt_index].kind = "scope" =>
               Emitted[Len(Emitted)]
                 = Ins("add", "rsp", "", 8 * NumLets(m_prog[stmt_index].stmts))]_vars

\* A block with two lets of its own, a nested block and a statement after it
\* has been lowered below a live local.
C4_Witness ==
  /\ gen_pc = "loop"
  /\ genStatus = "ok"
  /\ stmt_index = 3
  /\ m_prog[2].kind = "scope"
  /\ NumLets(m_prog[2].stmts) = 2
  /\ \E k \in 1..Len(m_prog[2].stmts) : m_prog[2].stmts[k].kind = "scope"
  /\ Len(m_vars) = 1
  /\ m_output[Len(m_output)] = Ins("add", "rsp", "", 16)

\* The names the output defines: the labels of the text and of the data.
Defines(line) == line.op = "label:" \/ line.op = "db"

\* C5: no two label definitions of one gen_prog run have the same name.
C5_LabelsDistinct ==
  gen_pc = "returned" =>
    \A i, j \in 1..Len(m_output) :
      (i # j /\ Defines(m_output[i]) /\ Defines(m_output[j]))
        => m_output[i].a # m_output[j].a

\* C6: a second Generator in the same process, given the same program,
\* returns the assembly the first one returned.
C6_SecondRunIdentical ==
  (generators = 2 /\ gen_pc = "returned") => m_output = out_asm

\* The blocks a statement lowers.
Blocks(s) ==
  CASE s.kind = "scope" -> {s}
    [] s.kind \in {"if", "while", "for", "else"} -> {s.scope}
    [] s.kind = "else_if" -> {s.links[k].scope : k \in 1..Len(s.links)}
    [] s.kind = "func_def" -> {s.body}
    [] OTHER -> {}

\* Among stmts from the k-th on, or in their blocks, a let names a name
\* that is live: one of live, or let earlier in the same block or in a
\* block around it. The names of a block are live until the block ends.
RECURSIVE Relets(_, _, _)
Relets(stmts, k, live) ==
  IF k > Len(stmts) THEN FALSE
  ELSE IF stmts[k].kind = "let"
    THEN stmts[k].name \in live \/ Relets(stmts, k + 1, live \cup {stmts[k].name})
  ELSE \/ \E b \in Blocks(stmts[k]) : Relets(b.stmts, 1, live)
       \/ Relets(stmts, k + 1, live)

\* C17: a statement of gen_prog's loop ends with "identifier already used"
\* only if it lets a live name again, and never ends well if it does; a
\* let of a live name adds nothing to m_vars, m_stack_size and m_output. A
\* name whose block has been closed is not live, so a later let of it is
\* accepted.
C17_RedeclaredLetIsFatal ==
  [][(gen_pc = "loop" /\ stmt_index' = stmt_index + 1) =>
       LET relet == Relets(SubSeq(m_prog, 1, stmt_index), 1, {}) IN
       /\ genStatus' = "identifier_already_used" => relet
       /\ genStatus' = "ok" => ~ relet
       /\ (relet /\ m_prog[stmt_index].kind = "let") =>
            /\ genStatus' = "identifier_already_used"
            /\ UNCHANGED <<m_vars, m_stack_size, m_output>>]_vars

\* a is let again in the block of an if while the a around it is live.
C17_Witness ==
  /\ m_prog = <<LetA, StmtIf(Bin("and", One, Two), Scope(<<LetA>>))>>
  /\ stmt_index = 3
  /\ genStatus = "identifier_already_used"
  /\ Len(m_vars) = 1

\* C18: a let that names itself in its initialiser, with no such name
\* live, is a fatal undeclared-identifier error, and no push of a stack
\* slot is emitted for it.
C18_OwnInitialiserIsUndeclared ==
  (gen_pc # "begin" /\ stmt_index > 1 /\ m_prog[1] = StmtLet("s", Ident("s"))) =>
    /\ genStatus = "undeclared_identifier"
    /\ \A k \in 1..Len(m_output) : m_output[k].a # "QWORD [rsp + ]"

\* C26: lowering function g(p, q) { return q; } ends well: the parameter is
\* a declared name inside the body, read from a slot of the stack, and the
\* parameters are not among the variables after the function.
C26_ParametersAreDeclared ==
  (gen_pc # "begin" /\ stmt_index > 1
     /\ m_prog[1] = FuncDef("g", <<"p", "q">>, Scope(<<StmtReturn(Ident("q"))>>))) =>
    /\ genStatus = "ok"
    /\ \E k \in 1..Len(m_output) : m_output[k].a = "QWORD [rsp + ]"
    /\ \A k \in 1..Len(m_vars) : m_vars[k].name \notin {"p", "q"}

\* C29: between two statements of gen_prog's loop, any two entries of
\* m_vars have different slots and every slot is below m_stack_size.
C29_SlotsAreDistinct ==
  (gen_pc \in {"loop", "returned"} /\ genStatus = "ok") =>
    /\ \A i, j \in 1..Len(m_vars) :
         i # j => m_vars[i].stack_loc # m_vars[j].stack_loc
    /\ \A i \in 1..Len(m_vars) : m_vars[i].stack_loc < m_stack_size

\* C30: m_stack_size never goes below zero, and no `[rsp + n]` operand and
\* no `add rsp, n` is emitted with a negative n (a wrapped size_t).
C30_NoWrapAround ==
  /\ m_stack_size >= 0
  /\ \A k \in 1..Len(m_output) :
       (m_output[k].a = "QWORD [rsp + ]" \/ IsAddRsp(m_output[k])) => m_output[k].n >= 0

(***************************************************************************)
(* What a compiled program computes                                        *)
(***************************************************************************)
\* Ordinary integer arithmetic.
RECURSIVE RefEval(_)
RefEval(e) ==
  IF e.op = "num" THEN e.n
  ELSE CASE e.op = "+" -> RefEval(e.l) + RefEval(e.r)
         [] e.op = "-" -> RefEval(e.l) - RefEval(e.r)
         [] e.op = "*" -> RefEval(e.l) * RefEval(e.r)
         [] e.op = "/" -> IF RefEval(e.r) = 0 THEN 0 ELSE RefEval(e.l) \div RefEval(e.r)

\* No division by zero, every intermediate value an exit status.
RECURSIVE InDomain(_)
InDomain(e) ==
  \/ e.op = "num"
  \/ /\ InDomain(e.l)
     /\ InDomain(e.r)
     /\ e.op = "/" => RefEval(e.r) # 0
     /\ RefEval(e) \in 0..255

\* main has returned and the program, if there is one, has ended: by exit or
\* by a divide error. (A run whose quotient is wider than the words kept
\* here stops as "unrepresentable" and is not judged.)
Ended ==
  /\ lexStatus # "not_started"
  /\ runStatus \in {"not_started", "exited", "divide_error"}

\* C1: running the assembly emitted for let x = E; exit(x); ends the process
\* with the value of E as exit status, for every E of literals, parentheses
\* and + - * / that stays in range and does not divide by zero.
C1_ExitStatusIsValue ==
  Ended =>
    \A e \in Arithmetic :
      (m_src = LetExit(e) /\ InDomain(e))
        => (runStatus = "exited" /\ exit_status = RefEval(e))

(***************************************************************************)
(* Precedence climbing                                                     *)
(***************************************************************************)
\* The tokens are let x = t1 op1 t2 op2 t3 ; ... with literals for terms:
\* the expression begins at index 3, the operators are at 4 and 6 and the
\* `;` is at 8 (0-based, as m_index counts).
ChainOfThree ==
  /\ Len(tokens) >= 9
  /\ [k \in 1..9 |-> tokens[k].type] \in
       {<<"let", "ident", "eq", "int_lit", o1, "int_lit", o2, "int_lit", "semi">> :
          o1 \in {"plus", "minus", "star", "fslash"},
          o2 \in {"plus", "minus", "star", "fslash"}}

TermAt(i) == IntLit(tokens[i + 1].value[1])
KindAt(i) ==
  CASE tokens[i + 1].type = "plus" -> "add"
    [] tokens[i + 1].type = "minus" -> "sub"
    [] tokens[i + 1].type = "star" -> "multi"
    [] tokens[i + 1].type = "fslash" -> "div"
PrecAt(i) == IF tokens[i + 1].type \in {"plus", "minus"} THEN 0 ELSE 1

\* The tree of t1 op1 t2 op2 t3: the tighter operator below the looser, the
\* left one below the right one when they bind alike.
Climbed ==
  IF PrecAt(6) > PrecAt(4)
  THEN Bin(KindAt(4), TermAt(3), Bin(KindAt(6), TermAt(5), TermAt(7)))
  ELSE Bin(KindAt(6), Bin(KindAt(4), TermAt(3), TermAt(5)), TermAt(7))

\* Where parse_expr(min_prec) called at t1 stops: in front of the first
\* operator that binds less than min_prec, at the `;` if there is none.
StopsAt(min_prec) ==
  IF PrecAt(4) < min_prec THEN 4 ELSE IF PrecAt(6) < min_prec THEN 6 ELSE 8

\* C23: t1 op1 t2 op2 t3 is parsed as t1 op1 (t2 op2 t3) when op2 binds
\* tighter than op1 and as (t1 op1 t2) op2 t3 otherwise, and parse_expr
\* called with min_prec stops in front of the first operator whose
\* precedence is below min_prec, leaving it unconsumed.
C23_PrecedenceClimbing ==
  ChainOfThree =>
    /\ parseStatus = "ok"
    /\ prog[1] = StmtLet("x", Climbed)
    /\ \A min_prec \in 0..2 :
         LET r == Parser("parse_expr", tokens, 3, min_prec) IN
         /\ r.st = "ok"
         /\ r.i = StopsAt(min_prec)
         /\ r.i = 4 => r.node = TermAt(3)
         /\ r.i = 6 => r.node = Bin(KindAt(4), TermAt(3), TermAt(5))
         /\ r.i = 8 => r.node = Climbed

\* let x = 3 - 2 - 1; has been parsed: (3 - 2) - 1.
C23_Witness ==
  /\ m_src = LetExit(Op("-", Op("-", Num(3), Num(2)), Num(1)))
  /\ ChainOfThree
  /\ parseStatus = "ok"
  /\ prog[1].expr = Bin("sub", Bin("sub", IntLit("3"), IntLit("2")), IntLit("1"))

\* C25: the processor executes every div with rdx = 0 (the only div lines
\* of these programs are those of the operator /).
C25_DivWithRdxZero ==
  (Fetching /\ Line.op = "div") => regs["rdx"] = 0

(***************************************************************************)
(* The parser against the grammar of the specification (section 4.3)       *)
(***************************************************************************)
\* parse_prog is over: it returned the program or ended the process.
ParseEnded == parseStatus \notin {"not_started", "loop"}

Zero == IntLit("0")
NoStmts == Scope(<<>>)

\* The program the grammar reads from Test4 and from TestPrecedence, with
\* || below && below == below + - below * /.
Test4Program ==
  <<StmtLet("x", One),
    StmtIf(Bin("eq", Ident("x"), One), Scope(<<StmtExit(IntLit("7"))>>)),
    StmtExit(Zero)>>

TestPrecedenceProgram ==
  <<StmtExit(Bin("or", Zero,
                 Bin("and", One,
                     Bin("eq", Two,
                         Bin("add", Two,
                             Bin("multi", One, Two))))))>>

\* C11: ==, && and || are folded into BinExpr nodes below the arithmetic
\* operators: the condition of Test4 is one Eq node over x and 1, the
\* operators of TestPrecedence nest || < && < == < + < *, and both
\* programs are parsed to the end.
C11_ComparisonsAreFolded ==
  /\ (m_src = Test4 /\ ParseEnded) =>
       (parseStatus = "ok" /\ prog = Test4Program)
  /\ (m_src = TestPrecedence /\ ParseEnded) =>
       (parseStatus = "ok" /\ prog = TestPrecedenceProgram)

\* The chain the grammar reads from a program of else-if clauses, and the
\* statements after it.
ElseIfPrograms ==
  [src \in {ElseIfOne, Spaced(<<ElseIfOne, ElseIfZero>>), Spaced(<<ElseIfOne, ExitZero>>)}
     |-> CASE src = ElseIfOne -> <<StmtElseIf(<<ElseIfLink(One, NoStmts)>>)>>
           [] src = Spaced(<<ElseIfOne, ElseIfZero>>) ->
                <<StmtElseIf(<<ElseIfLink(One, NoStmts), ElseIfLink(Zero, NoStmts)>>)>>
           [] OTHER -> <<StmtElseIf(<<ElseIfLink(One, NoStmts)>>), StmtExit(Zero)>>]

\* C12: `else if <Expr> <Scope>`, once or chained, is accepted by lexer and
\* parser and yields one ElseIf chain, a link per clause in source order,
\* that ends at the first follower that is not `else if`.
C12_ElseIfChainIsParsed ==
  (m_src \in DOMAIN ElseIfPrograms /\ lexStatus # "not_started") =>
    /\ lexStatus = "done"
    /\ ParseEnded => (parseStatus = "ok" /\ prog = ElseIfPrograms[m_src])

\* What the grammar reads from a function definition and from a return.
FunctionFStmt == FuncDef("f", <<"a", "b">>, Scope(<<StmtReturn(Ident("a"))>>))
StatementForms ==
  [src \in {FunctionF, ReturnOne, BlockReturn}
     |-> CASE src = FunctionF -> <<FunctionFStmt>>
           [] src = ReturnOne -> <<StmtReturn(One)>>
           [] OTHER -> <<Scope(<<StmtReturn(One)>>)>>]

\* C13: at statement position, at top level or inside a block, a function
\* definition parses to a FuncDef statement and `return` Expr to a Return
\* statement; neither is an invalid statement.
C13_FunctionAndReturnAreStatements ==
  (m_src \in DOMAIN StatementForms /\ ParseEnded) =>
    (parseStatus = "ok" /\ prog = StatementForms[m_src])

\* A statement begins at token k: at the start of the program, after the
\* `;` of a statement, at the start of a block or after a block.
StatementBegins(toks, k) ==
  k = 1 \/ toks[k - 1].type \in {"semi", "open_curly", "close_curly"}

\* The program has a statement that begins with an identifier and `=`.
HasAssignment(toks) ==
  \E k \in 1..(Len(toks) - 1) :
    /\ toks[k].type = "ident"
    /\ toks[k + 1].type = "eq"
    /\ StatementBegins(toks, k)

\* C14: a program with an assignment statement, at top level or inside a
\* block, never gets a Program from the parser, and no assembly is
\* generated for it.
C14_AssignmentIsRejected ==
  (lexStatus = "done" /\ HasAssignment(tokens)) =>
    /\ parseStatus # "ok"
    /\ gen_pc = "not_started"
    /\ out_asm = <<>>

\* The assignment inside a block, after a statement that was accepted, has
\* ended the process.
C14_Witness ==
  /\ m_src = Spaced(<<LetX, BlockAssign>>)
  /\ HasAssignment(tokens)
  /\ prog = <<StmtLet("x", One)>>
  /\ parseStatus = "expected_close_curly"

\* Every Expr edge below the node leads to a node the parser built.
RECURSIVE WellBuilt(_)
WellBuilt(n) ==
  CASE n.kind \in {"int_lit", "bool_lit", "ident", "string_lit"} -> TRUE
    [] n.kind = "paren" -> WellBuilt(n.expr)
    [] n.kind \in BinKinds -> WellBuilt(n.lhs) /\ WellBuilt(n.rhs)
    [] n.kind = "func_call" -> \A k \in 1..Len(n.args) : WellBuilt(n.args[k])
    [] n.kind = "func_def" -> WellBuilt(n.body)
    [] n.kind \in {"exit", "let", "print", "return"} -> WellBuilt(n.expr)
    [] n.kind \in {"if", "while"} -> WellBuilt(n.expr) /\ WellBuilt(n.scope)
    [] n.kind = "else" -> WellBuilt(n.scope)
    [] n.kind = "else_if" ->
         \A k \in 1..Len(n.links) : WellBuilt(n.links[k].expr) /\ WellBuilt(n.links[k].scope)
    [] n.kind = "for" ->
         WellBuilt(n.init) /\ WellBuilt(n.condition) /\ WellBuilt(n.iteration) /\ WellBuilt(n.scope)
    [] n.kind = "scope" -> \A k \in 1..Len(n.stmts) : WellBuilt(n.stmts[k])
    [] OTHER -> FALSE

\* The indexes (from 0, as m_index) of the tokens where an expression is
\* due and none begins: the `)` of `exit()`, the `;` of `let x = ;` and the
\* first `;` of `for (;`.
Holes(toks) ==
  {k \in 2..(Len(toks) - 1) :
     /\ \/ toks[k - 1].type = "exit" /\ toks[k].type = "open_paren"
           /\ toks[k + 1].type = "close_paren"
        \/ toks[k - 1].type = "ident" /\ toks[k].type = "eq" /\ toks[k + 1].type = "semi"
        \/ toks[k - 1].type = "for_" /\ toks[k].type = "open_paren"
           /\ toks[k + 1].type = "semi"}

Test6Program ==
  <<StmtPrint(StmtStringLit(<<"h", "i", "\n">>)), StmtExit(Zero)>>

\* C21: `print "hi\n"; exit(0);` passes the lexer, the parser and the
\* generator: the tokens are produced, the program is a print of the string
\* literal followed by exit(0), and gen_prog returns with the string in the
\* data section and the write system call in the text.
C21_PrintStringCompiles ==
  (m_src = Test6 /\ lexStatus # "not_started") =>
    /\ lexStatus = "done"
    /\ ParseEnded => (parseStatus = "ok" /\ prog = Test6Program)
    /\ gen_pc # "not_started" =>
         /\ gen_pc = "returned"
         /\ \E k \in 1..Len(m_data_section) : m_data_section[k].op = "db"
         /\ \E k \in 1..Len(out_asm) : out_asm[k] = Ins("mov", "rax", "", 1)

\* C24: in `exit(f(1) + 2);` the call is the left operand of +: parse_expr
\* folds it with 2 into one BinExpr and returns at the `)` of exit, so the
\* statement is accepted as exit of the sum.
C24_CallIsLeftOperand ==
  (m_src = ExitCallSum /\ ParseEnded) =>
    /\ parseStatus = "ok"
    /\ prog = <<StmtExit(Bin("add", FuncCall("f", <<One>>), Two))>>

\* Sources whose tokens end inside a block or in the middle of a statement.
CutShort == {OpenBlock, ForOpen, Spaced(<<LetX, OpenBlock>>), Spaced(<<LetX, ForOpen>>)}

\* C28: when the tokens end inside an unclosed block or in the middle of a
\* statement, the parser ends the process with one of its messages; it
\* never takes the value of a token at or beyond the end of the tokens, and
\* its index never passes the end.
C28_EndOfTokensIsDiagnosed ==
  /\ p_index <= Len(tokens)
  /\ parseStatus # "bad_optional_access"
  /\ (m_src \in CutShort /\ ParseEnded) => parseStatus # "ok"

(***************************************************************************)
(* What && and || are to compute (specification, section 4.5)              *)
(***************************************************************************)
Digit(lexeme) ==
  CASE lexeme = "0" -> 0 [] lexeme = "1" -> 1 [] lexeme = "2" -> 2
    [] lexeme = "3" -> 3 [] lexeme = "4" -> 4

\* The value of an expression of literals, -, && and ||.
RECURSIVE Value(_)
Value(e) ==
  CASE e.kind = "int_lit" -> Digit(e.value)
    [] e.kind = "sub" -> Value(e.lhs) - Value(e.rhs)
    [] e.kind = "and" -> IF Value(e.lhs) # 0 /\ Value(e.rhs) # 0 THEN 1 ELSE 0
    [] e.kind = "or" -> IF Value(e.lhs) # 0 \/ Value(e.rhs) # 0 THEN 1 ELSE 0

\* Evaluating e evaluates the literal lit: the right operand of && counts
\* only when the left one is non-zero, that of || only when it is zero.
RECURSIVE Evaluates(_, _)
Evaluates(e, lit) ==
  CASE e.kind = "int_lit" -> e.value = lit
    [] e.kind = "sub" -> Evaluates(e.lhs, lit) \/ Evaluates(e.rhs, lit)
    [] e.kind = "and" ->
         Evaluates(e.lhs, lit) \/ (Value(e.lhs) # 0 /\ Evaluates(e.rhs, lit))
    [] e.kind = "or" ->
         Evaluates(e.lhs, lit) \/ (Value(e.lhs) = 0 /\ Evaluates(e.rhs, lit))

\* The && or || of the program, and the line the processor is about to run.
Logical == m_prog[1].expr
Loading(n) == Fetching /\ Line = Ins("mov", "rax", "", n)

\* C19: the processor is in the code of the right operand of an && only if
\* the left operand was non-zero, and of an || only if it was zero; when
\* the construct is done, one value has been pushed for it, 1 or 0 as the
\* boolean result, and the program exits with it.
C19_ShortCircuit ==
  /\ Loading(3) => Evaluates(Logical, "3")
  /\ Loading(4) => Evaluates(Logical, "4")
  /\ (Loading(60) /\ m_prog[1].kind = "exit") => stack = <<Value(Logical)>>
  /\ (Loading(60) /\ m_prog[1].kind = "let") =>
       stack = <<Value(Logical), Value(Logical)>>
  /\ runStatus = "exited" => exit_status = Value(Logical)

\* exit(1 || 3 - 3); has exited with 1, and rbx, which the code of 3 - 3
\* pops a 3 into, is as it was at _start.
C19_Witness ==
  /\ m_prog = <<StmtExit(Bin("or", One, Nought))>>
  /\ runStatus = "exited"
  /\ exit_status = 1
  /\ regs["rbx"] = 0

(***************************************************************************)
(* The arena against its contract (specification, section 4.1)             *)
(***************************************************************************)
\* C20: the bump offset never passes the capacity given at construction,
\* every block handed out lies inside the buffer, and no two blocks
\* overlap.
C20_AllocStaysInCapacity ==
  /\ m_offset <= m_size
  /\ \A k \in 1..Len(regions) : regions[k].start + regions[k].size <= m_size
  /\ \A j, k \in 1..Len(regions) :
       j < k => regions[j].start + regions[j].size <= regions[k].start

(***************************************************************************)
(* The shape of the nodes in the arena                                     *)
(***************************************************************************)
\* The pointers a node holds, field by field; nullptr (0) is no edge.
Fields(node) ==
  CASE node.type \in {"NodeExpr", "NodeTerm", "NodeBinExpr", "NodeStmt"} -> <<node.var>>
    [] node.type \in {"NodeBinExprAdd", "NodeBinExprSub", "NodeBinExprMulti",
                      "NodeBinExprDiv", "NodeBinExprEq", "NodeBinExprAnd",
                      "NodeBinExprOr"} -> <<node.lhs, node.rhs>>
    [] node.type \in {"NodeTermParen", "NodeStmtExit", "NodeStmtLet",
                      "NodeStmtPrint"} -> <<node.expr>>
    [] node.type \in {"NodeStmtIf", "NodeStmtWhile"} -> <<node.expr, node.scope>>
    [] node.type = "NodeStmtElse" -> <<node.scope>>
    [] node.type = "NodeStmtElseIf" -> <<node.expr, node.scope, node.next>>
    [] node.type = "NodeStmtFor" ->
         <<node.init, node.condition, node.iteration, node.scope>>
    [] node.type = "NodeScope" -> node.stmts
    [] node.type = "NodeFuncCall" -> node.args
    [] node.type = "NodeFuncDef" -> <<node.body>>
    [] OTHER -> <<>>

\* The edges that point at p: <<q, k>> for the k-th pointer of node q, and
\* <<0, k>> for the k-th element of prog.stmts.
EdgesTo(p) ==
  {e \in (1..Len(nodes)) \X (1..4) :
     e[2] <= Len(Fields(nodes[e[1]])) /\ Fields(nodes[e[1]])[e[2]] = p}
  \cup {<<0, k>> : k \in {k \in 1..Len(prog_stmts) : prog_stmts[k] = p}}

Children(q) == {Fields(nodes[q])[k] : k \in 1..Len(Fields(nodes[q]))} \ {0}

\* What is left of S after the nodes with no child in S are taken away, again
\* and again: the nodes from which a cycle can be reached.
RECURSIVE Prune(_)
Prune(S) ==
  LET leaves == {q \in S : Children(q) \cap S = {}}
  IN IF leaves = {} THEN S ELSE Prune(S \ leaves)

\* The expression or statement a pointer stands for, as parse_stmt's value.
RECURSIVE View(_)
View(p) ==
  LET node == nodes[p] IN
  CASE node.type \in {"NodeExpr", "NodeTerm", "NodeBinExpr", "NodeStmt"} -> View(node.var)
    [] node.type = "NodeTermIntLit" -> IntLit(node.int_lit)
    [] node.type = "NodeTermIdent" -> Ident(node.ident)
    [] node.type = "NodeBoolLit" -> BoolLit(node.value)
    [] node.type = "NodeTermParen" -> Paren(View(node.expr))
    [] node.type = "NodeBinExprAdd" -> Bin("add", View(node.lhs), View(node.rhs))
    [] node.type = "NodeBinExprSub" -> Bin("sub", View(node.lhs), View(node.rhs))
    [] node.type = "NodeBinExprMulti" -> Bin("multi", View(node.lhs), View(node.rhs))
    [] node.type = "NodeBinExprDiv" -> Bin("div", View(node.lhs), View(node.rhs))
    [] node.type = "NodeStmtExit" -> StmtExit(View(node.expr))
    [] node.type = "NodeStmtLet" -> StmtLet(node.ident, View(node.expr))
    [] node.type = "NodeScope" -> Scope([k \in 1..Len(node.stmts) |-> View(node.stmts[k])])
    [] node.type = "NodeStmtIf" -> StmtIf(View(node.expr), View(node.scope))
    [] node.type = "NodeStmtWhile" -> StmtWhile(View(node.expr), View(node.scope))
    [] OTHER -> NoNode

\* C16: in the AST parse returns, every node is the target of at most one
\* edge (a pointer field of a node or an element of prog.stmts), every edge
\* points at an allocated node, and no node can reach itself, the nodes that
\* parse_expr re-links while folding a chain of operators included.
C16_TreeShape ==
  parseStatus = "ok" =>
    /\ \A p \in 1..Len(nodes) : Cardinality(EdgesTo(p)) <= 1
    /\ \A q \in 1..Len(nodes) : Children(q) \subseteq 1..Len(nodes)
    /\ Prune(1..Len(nodes)) = {}

\* `exit(3 - 2 - 1 + 2);` has been parsed: the loop of parse_expr has folded
\* three operators onto the same expr_lhs, and the statement in prog.stmts
\* reads ((3 - 2) - 1) + 2.
C16_Witness ==
  /\ m_src = ExitChain
  /\ parseStatus = "ok"
  /\ Len(prog_stmts) = 1
  /\ Cardinality({p \in 1..Len(nodes) : nodes[p].type = "NodeBinExpr"}) = 3
  /\ View(prog_stmts[1]) =
       StmtExit(Bin("add", Bin("sub", Bin("sub", IntLit("3"), IntLit("2")), IntLit("1")),
                    IntLit("2")))
  /\ prog = <<View(prog_stmts[1])>>

(***************************************************************************)
(* The running program against the generator's bookkeeping                 *)
(***************************************************************************)
\* The generator when the loop of gen_prog has lowered the first k
\* statements of m_prog.
GenUpTo(k) == gen_stmts(gen_prog_begin(NewGenerator(0)), SubSeq(m_prog, 1, k), 1)

\* The generator at the start label of the for statement that is the k-th
\* of m_prog: the two labels are created and init is lowered.
AtForStart(k) == gen_expr(create_label(create_label(GenUpTo(k - 1))), m_prog[k].init)

\* The processor is about to execute the line that follows g's output.
Arrived(g) == runStatus = "running" /\ ip = Len(g.m_output) + 1

\* C22: whenever the running program is at a statement boundary or at the
\* start label of a loop, the slots it has pushed and not released are as
\* many as the generator's stack_depth at that point of the output.
C22_DepthIsStackDepth ==
  /\ \A k \in 0..Len(m_prog) :
       Arrived(GenUpTo(k)) => Len(stack) = GenUpTo(k).m_stack_size
  /\ \A k \in 1..Len(m_prog) :
       (m_prog[k].kind = "for" /\ Arrived(AtForStart(k)))
         => Len(stack) = AtForStart(k).m_stack_size

(***************************************************************************)
(* The else-if chain at run time                                           *)
(***************************************************************************)
\* The chain of the program, and whether its k-th condition is not zero.
IsChain == m_prog[2].kind = "else_if"
Links == m_prog[2].links
NonZero(k) == Links[k].expr.kind = "int_lit"

\* The lines of out.asm of a kind, and the names they hold.
LinesOf(op) == {k \in 1..Len(out_asm) : out_asm[k].op = op}
NamesOf(op) == {out_asm[k].a : k \in LinesOf(op)}

\* C27: the processor is in the k-th condition of a chain only if every
\* condition before it was zero, and in the k-th body only if, besides,
\* the k-th condition is not zero; the chain leaves the stack as it found
\* it. Its code defines one end label, the target of every jmp, placed
\* after the chain, and one next-label per link, the target of that link's
\* je, each exactly once.
C27_ElseIfChain ==
  IsChain =>
    /\ \A k \in 1..Len(Links) :
         /\ Loading(10 + k) => \A j \in 1..(k - 1) : ~ NonZero(j)
         /\ Loading(20 + k) => (NonZero(k) /\ \A j \in 1..(k - 1) : ~ NonZero(j))
    /\ Loading(60) => stack = <<2, 2>>
    /\ runStatus = "exited" => exit_status = 2
    /\ gen_pc = "returned" =>
         /\ Cardinality(LinesOf("label:")) = Len(Links) + 2
         /\ Cardinality(NamesOf("label:")) = Len(Links) + 2
         /\ Cardinality(NamesOf("jmp")) = 1
         /\ Cardinality(NamesOf("je")) = Len(Links)
         /\ NamesOf("jmp") \cup NamesOf("je") = NamesOf("label:") \ {"_start"}
         /\ \A e \in NamesOf("jmp") : \A n \in NamesOf("je") :
              LabelLine(out_asm, n) < LabelLine(out_asm, e)

\* The processor is in the body of the second link of a chain of three
\* whose first condition is zero and whose second and third are not.
C27_Witness ==
  /\ m_prog[2] = StmtElseIf(<<ElseIfLink(Fails(1), Body(1)), ElseIfLink(Holds(2), Body(2)),
                              ElseIfLink(Holds(3), Body(3))>>)
  /\ Loading(22)
  /\ stack = <<2>>
====
